---- MODULE Spec2Model ----
(***************************************************************************)
(* Recursive specification (BOM) explosion of PRODPLAN:                    *)
(*   - backend/app/services/stages_calculator.py : calculate_stages        *)
(*   - backend/app/routers/specification.py      : the specification tree  *)
(* The catalog tables are the state the explosions read; each explosion is *)
(* run as a call stack, one loop iteration per step.                       *)
(***************************************************************************)
EXTENDS Integers, Sequences, FiniteSets, TLC

(***************************************************************************)
(* Bounds of the model.                                                    *)
(***************************************************************************)
NumItems == 3      \* items 1..NumItems of the small catalogs
MaxComps == 3      \* rows of spec_components in the small catalogs
MaxChain == 53     \* longest chain catalog (items 1..MaxChain)
MaxSteps == 130    \* cap on the steps of one call

(***************************************************************************)
(* Values.                                                                 *)
(***************************************************************************)
NULL == 0            \* Python None / SQL NULL (ids start at 1)
QS == 1000           \* quantities are DECIMAL(10, 3): integers in 1/1000

StageIds == {1, 2}
QtyValues == {0 - QS, 0, QS, 2 * QS}
ReplValues == {"Production", "Purchase", ""}

VARIABLES
    items,             \* table items: item_id -> row
    default_specs,     \* table default_specifications, as a query without
                       \* ORDER BY returns its rows
    specifications,    \* table specifications, in spec_id order
    spec_components,   \* table spec_components, in component_id order
    spec_operations,   \* table spec_operations, in spec_operation_id order
    operations,        \* table operations: operation_id -> row
    root_products,     \* table root_products, in id order
    request,           \* the route called: "stages" or "full"
    req_item_id,       \* GET /full: query parameter item_id
    root_qty,          \* GET /full: query parameter root_qty, in 1/TS
    max_depth,         \* GET /full: query parameter max_depth
    req_parent_id,     \* GET /tree: query parameter parent_id
    req_depth,         \* GET /tree: query parameter depth
    st_pc,             \* calculate_stages: "idle", "roots", "expand", "done"
    root_idx,          \* calculate_stages: position in root_item_ids
    stage_qty_map,     \* calculate_stages: accum of the current root
    stack,             \* calculate_stages: frames of expand, top last
    results_per_stage, \* calculate_stages: stage_id -> blocks
    stages_out,        \* calculate_stages: the returned "stages"
    tr_pc,             \* get_specification_full: "idle", "recurse", "done"
    tr_status,         \* get_specification_full: HTTP status of the answer
    tree,              \* _build_full_tree: node address -> node
    tr_stack,          \* _build_full_tree: frames of _recurse, top last
    lz_pc,             \* get_specification_tree: "idle", "done"
    lz_status,         \* get_specification_tree: HTTP status of the answer
    lz_nodes,          \* get_specification_tree: node address -> node
    steps,             \* steps taken by the running call
    raised,            \* a query of the running call raised an exception
    bom_items,         \* SQLite table items: item_id -> row
    production_stages, \* SQLite table production_stages: stage_id -> row
    bom,               \* SQLite table bom, in bom_id order
    temp_orders,       \* SQLite table temp_orders: whether it exists, its rows
    cn_pc,             \* calculate_component_needs, per caller: "idle",
                       \* "query", "drop", "done"
    cn_orders,         \* calculate_component_needs, per caller: orders
    cn_result,         \* calculate_component_needs, per caller: the outcome
    ex_args,           \* explode_bom_for_root: the calls to make
    ex_results,        \* explode_bom_for_root: what the calls made returned
    plan_entries,      \* table production_plan_entries, committed rows
    up_pc,             \* upsert_plan_entry, per session: "idle", "updated",
                       \* "done"
    up_req,            \* upsert_plan_entry, per session: the arguments
    up_rows,           \* upsert_plan_entry, per session: ids the UPDATE hit
    up_calls,          \* upsert_plan_entry: calls made so far
    progress_state,    \* ProgressManager._state: key -> state
    sync_pc,           \* the sync of a key: "idle", "started", "pages",
                       \* "finished", "returned", "raised"
    sync_processed     \* the sync of a key: records processed

catalog == <<items, default_specs, specifications, spec_components,
             spec_operations, operations, root_products>>
query == <<request, req_item_id, root_qty, max_depth, req_parent_id, req_depth>>
stvars == <<st_pc, root_idx, stage_qty_map, stack, results_per_stage, stages_out>>
trvars == <<tr_pc, tr_status, tree, tr_stack>>
lzvars == <<lz_pc, lz_status, lz_nodes>>
faultvars == <<raised>>
sqlite_db == <<bom_items, production_stages, bom, temp_orders>>
cnvars == <<cn_pc, cn_orders, cn_result>>
exvars == <<ex_args, ex_results>>
sqlvars == <<sqlite_db, cnvars, exvars>>
planvars == <<plan_entries, up_pc, up_req, up_rows, up_calls>>
syncvars == <<progress_state, sync_pc, sync_processed>>
backend == <<catalog, query, stvars, trvars, lzvars, steps>>
\* what the three explosion routes of the backend leave alone
beyond == <<faultvars, sqlvars, planvars, syncvars>>
\* what a failing query of the backend leaves alone
besideFault == <<sqlvars, planvars, syncvars>>
\* what the SQLite calculators leave alone
besideSql == <<backend, faultvars, planvars, syncvars>>
\* what upsert_plan_entry leaves alone
besidePlan == <<backend, faultvars, sqlvars, syncvars>>
\* what the syncs leave alone
besideSync == <<backend, faultvars, sqlvars, planvars>>
vars == <<catalog, query, stvars, trvars, lzvars, steps, beyond>>

(***************************************************************************)
(* Helpers.                                                                *)
(***************************************************************************)
Range(s) == {s[k] : k \in 1 .. Len(s)}

\* float multiplication of two quantities held in 1/QS
MulQ(a, b) == (a * b) \div QS

\* sorted(xs, key=...) for a set of integer keys
RECURSIVE SortedKeys(_)
SortedKeys(S) ==
    IF S = {} THEN <<>>
    ELSE LET m == CHOOSE x \in S : \A y \in S : x <= y
         IN <<m>> \o SortedKeys(S \ {m})

(***************************************************************************)
(* calculate_stages: the reference tables loaded at the start of the call. *)
(***************************************************************************)
\* item_by_id = {int(x.item_id): x for x in items}
item_by_id == items

\* default_spec_map: the first row of an item wins, later rows are ignored
default_spec_map ==
    [iid \in {default_specs[k].item_id : k \in 1 .. Len(default_specs)} |->
        LET first == CHOOSE k \in 1 .. Len(default_specs) :
                        /\ default_specs[k].item_id = iid
                        /\ \A j \in 1 .. (k - 1) : default_specs[j].item_id # iid
        IN  default_specs[first].spec_id]

\* db.query(SpecComponent).filter(SpecComponent.spec_id == spec_id).all()
get_components_for_spec(spec_id) ==
    LET OfSpec(r) == r.spec_id = spec_id
    IN  SelectSeq(spec_components, OfSpec)

\* the root rows whose item exists
root_item_ids ==
    LET Known(r) == r.item_id # NULL /\ r.item_id \in DOMAIN item_by_id
        rows == SelectSeq(root_products, Known)
    IN  [k \in 1 .. Len(rows) |-> rows[k].item_id]

\* str(s).strip().lower() on the values of ReplValues
StripLower(s) ==
    CASE s = "Production"   -> "production"
      [] OTHER              -> s

\* _is_production_method: None and "" are falsy; the Cyrillic literal of the
\* source set is a second spelling of the same method and is not drawn here
_is_production_method(s) ==
    IF s = "" THEN FALSE ELSE StripLower(s) \in {"production"}

(***************************************************************************)
(* calculate_stages.expand                                                 *)
(***************************************************************************)
StageDepthLimit == 50

\* a slip of ExpandReturnsEarly: the depth guard is missing
ExpandReturnsEarlyNoDepth(item_id, path, depth) ==
    \/ item_id \in path
    \/ item_id \notin DOMAIN default_spec_map
    \/ default_spec_map[item_id] = NULL

\* a slip of ExpandReturnsEarly: the cycle guard is missing
ExpandReturnsEarlyNoPath(item_id, path, depth) ==
    \/ depth > StageDepthLimit
    \/ item_id \notin DOMAIN default_spec_map
    \/ default_spec_map[item_id] = NULL

\* the guards at the head of expand: depth, cycle, missing specification
ExpandReturnsEarly(item_id, path, depth) ==
    \/ depth > StageDepthLimit
    \/ item_id \in path
    \/ item_id \notin DOMAIN default_spec_map
    \/ default_spec_map[item_id] = NULL

\* a slip of ExpandCall: the item of the call is not added to the path
ExpandCallSamePath(item_id, multiplier, path, depth) ==
    IF ExpandReturnsEarly(item_id, path, depth) THEN <<>>
    ELSE << [ item_id    |-> item_id,
              multiplier |-> multiplier,
              new_path   |-> path,
              depth      |-> depth,
              comps      |-> get_components_for_spec(default_spec_map[item_id]),
              i          |-> 1 ] >>

\* the frame of a call of expand that passed the guards, or no frame
ExpandCall(item_id, multiplier, path, depth) ==
    IF ExpandReturnsEarly(item_id, path, depth) THEN <<>>
    ELSE << [ item_id    |-> item_id,
              multiplier |-> multiplier,
              new_path   |-> path \cup {item_id},
              depth      |-> depth,
              comps      |-> get_components_for_spec(default_spec_map[item_id]),
              i          |-> 1 ] >>

\* a slip of Descend: only a component that entered a bucket is expanded
DescendIfBucket(comp, total_qty, path, depth) ==
    IF comp.stage_id # NULL
       /\ item_by_id[comp.item_id].replenishment_method = "Production"
    THEN ExpandCall(comp.item_id, total_qty, path, depth)
    ELSE <<>>

\* expand(child_item_id, total_qty, accum, new_path, depth + 1), made for
\* every component that was not skipped
Descend(comp, total_qty, path, depth) ==
    ExpandCall(comp.item_id, total_qty, path, depth)

\* total_qty = multiplier * comp_qty
TotalQty(multiplier, comp) == MulQ(multiplier, comp.quantity)

\* a slip of SkipComponent: a quantity of zero is let through
SkipComponentNegative(total_qty) == total_qty < 0

\* if total_qty <= 0: continue
SkipComponent(total_qty) == total_qty <= 0

\* a slip of EntersBucket: the replenishment method is not looked at
EntersBucketAnyMethod(comp) == comp.stage_id # NULL

\* if stage_id is not None and is_prod
EntersBucket(comp) ==
    /\ comp.stage_id # NULL
    /\ comp.item_id \in DOMAIN item_by_id
    /\ _is_production_method(item_by_id[comp.item_id].replenishment_method)

\* a slip of Accumulate: the value of the key is overwritten, not added to
AccumulateOverwrite(accum, key, total_qty) ==
    [k \in DOMAIN accum \cup {key} |-> IF k = key THEN total_qty ELSE accum[k]]

\* accum[key] = accum.get(key, 0.0) + total_qty
Accumulate(accum, key, total_qty) ==
    [k \in DOMAIN accum \cup {key} |->
        IF k = key
        THEN (IF key \in DOMAIN accum THEN accum[key] ELSE 0) + total_qty
        ELSE accum[k]]

(***************************************************************************)
(* calculate_stages: the blocks of one root and the returned structure.    *)
(***************************************************************************)
\* sorted(..., key=(item_code, item_name)) of a set of item ids
RECURSIVE SortedByCode(_)
SortedByCode(S) ==
    IF S = {} THEN <<>>
    ELSE LET m == CHOOSE x \in S : \A y \in S :
                      item_by_id[x].item_code <= item_by_id[y].item_code
         IN  <<m>> \o SortedByCode(S \ {m})

\* StageComponent
StageComponent(comp_item_id, qty) ==
    [ item_id              |-> comp_item_id,
      item_code            |-> item_by_id[comp_item_id].item_code,
      qty_per_unit         |-> qty,
      replenishment_method |-> item_by_id[comp_item_id].replenishment_method ]

\* StageProductBlock of root rid for stage stg_id, components sorted by code
StageProductBlock(rid, stg_id, accum) ==
    LET ids == {k[2] : k \in {x \in DOMAIN accum :
                                 x[1] = stg_id /\ x[2] \in DOMAIN item_by_id}}
        ord == SortedByCode(ids)
    IN  [ root_item_id   |-> rid,
          root_item_code |-> item_by_id[rid].item_code,
          components     |-> [k \in 1 .. Len(ord) |->
                                 StageComponent(ord[k], accum[<<stg_id, ord[k]>>])] ]

\* results_per_stage after the blocks of root rid are appended
AppendBlocks(results, rid, accum) ==
    LET stgs == {k[1] : k \in {x \in DOMAIN accum : x[2] \in DOMAIN item_by_id}}
    IN  [s \in DOMAIN results \cup stgs |->
            (IF s \in DOMAIN results THEN results[s] ELSE <<>>)
            \o (IF s \in stgs THEN <<StageProductBlock(rid, s, accum)>> ELSE <<>>)]

\* products of a stage sorted by root_item_code
RECURSIVE SortedBlocks(_)
SortedBlocks(blocks) ==
    IF blocks = <<>> THEN <<>>
    ELSE LET m == CHOOSE k \in 1 .. Len(blocks) : \A j \in 1 .. Len(blocks) :
                      \/ blocks[k].root_item_code < blocks[j].root_item_code
                      \/ (blocks[k].root_item_code = blocks[j].root_item_code /\ k <= j)
             rest == [j \in 1 .. (Len(blocks) - 1) |->
                         IF j < m THEN blocks[j] ELSE blocks[j + 1]]
         IN  <<blocks[m]>> \o SortedBlocks(rest)

\* stages_out_sorted: production_stages holds stage_order = stage_id
StagesOut(results) ==
    LET ord == SortedKeys(DOMAIN results)
    IN  [k \in 1 .. Len(ord) |->
            [ stage_id |-> ord[k], products |-> SortedBlocks(results[ord[k]]) ]]

(***************************************************************************)
(* calculate_stages as steps.                                              *)
(***************************************************************************)
Top == stack[Len(stack)]

Pop(s) == SubSeq(s, 1, Len(s) - 1)

\* the top frame with its loop moved to the next component
Advance(s) == [s EXCEPT ![Len(s)].i = @ + 1]

\* POST /v1/stages/calculate arrives
CalculateStagesStart ==
    /\ request = "stages"
    /\ st_pc = "idle"
    /\ st_pc' = "roots"
    /\ root_idx' = 1
    /\ stage_qty_map' = <<>>
    /\ stack' = <<>>
    /\ results_per_stage' = <<>>
    /\ stages_out' = <<>>
    /\ steps' = 0
    /\ UNCHANGED <<catalog, beyond, query, trvars, lzvars, query, trvars>>

\* for rid in root_item_ids: a root without default specification is skipped
RootSkip ==
    /\ st_pc = "roots"
    /\ steps < MaxSteps
    /\ root_idx <= Len(root_item_ids)
    /\ root_item_ids[root_idx] \notin DOMAIN default_spec_map
    /\ root_idx' = root_idx + 1
    /\ steps' = steps + 1
    /\ UNCHANGED <<catalog, beyond, query, trvars, lzvars, st_pc, stage_qty_map, stack, results_per_stage, stages_out>>

\* a slip of RootExpand: the accumulator of the root before is kept
RootExpandKeepsMap ==
    /\ st_pc = "roots"
    /\ steps < MaxSteps
    /\ root_idx <= Len(root_item_ids)
    /\ root_item_ids[root_idx] \in DOMAIN default_spec_map
    /\ stage_qty_map' = stage_qty_map
    /\ stack' = ExpandCall(root_item_ids[root_idx], QS, {}, 0)
    /\ st_pc' = "expand"
    /\ steps' = steps + 1
    /\ UNCHANGED <<catalog, beyond, query, trvars, lzvars, root_idx, results_per_stage, stages_out>>

\* expand(rid, 1.0, stage_qty_map, set(), depth=0)
RootExpand ==
    /\ st_pc = "roots"
    /\ steps < MaxSteps
    /\ root_idx <= Len(root_item_ids)
    /\ root_item_ids[root_idx] \in DOMAIN default_spec_map
    /\ stage_qty_map' = <<>>
    /\ stack' = ExpandCall(root_item_ids[root_idx], QS, {}, 0)
    /\ st_pc' = "expand"
    /\ steps' = steps + 1
    /\ UNCHANGED <<catalog, beyond, query, trvars, lzvars, root_idx, results_per_stage, stages_out>>

\* one iteration of "for comp in comps" in the running call of expand
ExpandStep ==
    /\ st_pc = "expand"
    /\ steps < MaxSteps
    /\ stack # <<>>
    /\ Top.i <= Len(Top.comps)
    /\ LET comp      == Top.comps[Top.i]
           total_qty == TotalQty(Top.multiplier, comp)
       IN  IF SkipComponent(total_qty)
           THEN /\ stack' = Advance(stack)
                /\ UNCHANGED stage_qty_map
           ELSE /\ stage_qty_map' =
                      IF EntersBucket(comp)
                      THEN Accumulate(stage_qty_map, <<comp.stage_id, comp.item_id>>, total_qty)
                      ELSE stage_qty_map
                /\ stack' = Advance(stack)
                              \o Descend(comp, total_qty, Top.new_path, Top.depth + 1)
    /\ steps' = steps + 1
    /\ UNCHANGED <<catalog, beyond, query, trvars, lzvars, st_pc, root_idx, results_per_stage, stages_out>>

\* the running call of expand has no component left and returns
ExpandReturn ==
    /\ st_pc = "expand"
    /\ steps < MaxSteps
    /\ stack # <<>>
    /\ Top.i > Len(Top.comps)
    /\ stack' = Pop(stack)
    /\ steps' = steps + 1
    /\ UNCHANGED <<catalog, beyond, query, trvars, lzvars, st_pc, root_idx, stage_qty_map, results_per_stage, stages_out>>

\* expand of the root returned: its blocks are grouped by stage
RootCollect ==
    /\ st_pc = "expand"
    /\ steps < MaxSteps
    /\ stack = <<>>
    /\ results_per_stage' =
          AppendBlocks(results_per_stage, root_item_ids[root_idx], stage_qty_map)
    /\ root_idx' = root_idx + 1
    /\ st_pc' = "roots"
    /\ steps' = steps + 1
    /\ UNCHANGED <<catalog, beyond, query, trvars, lzvars, stage_qty_map, stack, stages_out>>

\* every root is done: the stages are sorted and returned
CalculateStagesReturn ==
    /\ st_pc = "roots"
    /\ steps < MaxSteps
    /\ root_idx > Len(root_item_ids)
    /\ stages_out' = StagesOut(results_per_stage)
    /\ st_pc' = "done"
    /\ steps' = steps + 1
    /\ UNCHANGED <<catalog, beyond, query, trvars, lzvars, root_idx, stage_qty_map, stack, results_per_stage>>

NextStages ==
    \/ CalculateStagesStart
    \/ RootSkip
    \/ RootExpand
    \/ ExpandStep
    \/ ExpandReturn
    \/ RootCollect
    \/ CalculateStagesReturn

(***************************************************************************)
(* Catalogs.                                                               *)
(***************************************************************************)
\* items 1..n, every one with its own code and name
ItemTable(n, repl) ==
    [i \in 1 .. n |->
        [ item_code |-> i, item_name |-> i, replenishment_method |-> repl[i] ]]

\* default_specifications: item i -> specification i, for the items of D
DefaultRows(D) ==
    LET ord == SortedKeys(D)
    IN  [k \in 1 .. Len(ord) |->
            [ id |-> k, item_id |-> ord[k], characteristic_id |-> NULL,
              spec_id |-> ord[k] ]]

CompRow(Q, S) ==
    [ spec_id : 1 .. NumItems, item_id : 1 .. NumItems, quantity : Q, stage_id : S ]

\* rows are listed specification by specification, component by component
Listed(rows) ==
    \A k \in 1 .. (Len(rows) - 1) :
        \/ rows[k].spec_id < rows[k + 1].spec_id
        \/ /\ rows[k].spec_id = rows[k + 1].spec_id
           /\ rows[k].item_id <= rows[k + 1].item_id

CompTables(Q, S) ==
    UNION { {rows \in [1 .. n -> CompRow(Q, S)] : Listed(rows)} : n \in 0 .. MaxComps }

RootRows(ids) == [k \in 1 .. Len(ids) |-> [ item_id |-> ids[k] ]]

\* specifications 1..n; those of coded carry the code of the item with the
\* same number, those of named its name, the others a code and name of their own
SpecTable(n, coded, named) ==
    [k \in 1 .. n |->
        [ spec_id   |-> k,
          spec_code |-> IF k \in coded THEN k ELSE 0 - k,
          spec_name |-> IF k \in named THEN k ELSE 0 - k ]]

\* the tables the stage calculation does not read
NoOperations ==
    /\ specifications = SpecTable(Len(items), {}, {})
    /\ spec_operations = <<>>
    /\ operations = <<>>

\* small catalogs that vary the quantities, the plan and the default mapping
QuantityCatalog ==
    /\ items = ItemTable(NumItems, [i \in 1 .. NumItems |-> "Production"])
    /\ spec_components \in CompTables(QtyValues, {1})
    /\ \E D \in {1 .. NumItems, (1 .. NumItems) \ {2}} : default_specs = DefaultRows(D)
    /\ \E ids \in {<<1>>, <<2, 1>>} : root_products = RootRows(ids)
    /\ NoOperations

\* small catalogs that vary the stages and the replenishment methods
StageCatalog ==
    /\ \E repl \in [1 .. NumItems -> ReplValues] :
          repl[1] = "Production" /\ items = ItemTable(NumItems, repl)
    /\ spec_components \in CompTables({2 * QS}, StageIds \cup {NULL})
    /\ default_specs = DefaultRows(1 .. NumItems)
    /\ root_products = RootRows(<<1>>)
    /\ NoOperations

\* a chain 1 -> 2 -> ... -> n of manufactured assemblies, one per unit, with
\* or without a second use of the last item directly under item 1
ChainCatalog ==
    \E n \in (MaxChain - 3) .. MaxChain, s \in StageIds, direct \in BOOLEAN :
        /\ items = ItemTable(n, [i \in 1 .. n |-> "Production"])
        /\ spec_components =
              [k \in 1 .. (n - 1) |->
                  [ spec_id |-> k, item_id |-> k + 1, quantity |-> QS, stage_id |-> s ]]
              \o (IF direct
                  THEN << [ spec_id |-> 1, item_id |-> n, quantity |-> QS, stage_id |-> s ] >>
                  ELSE <<>>)
        /\ default_specs = DefaultRows(1 .. n)
        /\ root_products = RootRows(<<1>>)
        /\ NoOperations

\* no call of the backend is running
CallIdle ==
    /\ st_pc = "idle"
    /\ root_idx = 1
    /\ stage_qty_map = <<>>
    /\ stack = <<>>
    /\ results_per_stage = <<>>
    /\ stages_out = <<>>
    /\ tr_pc = "idle"
    /\ tr_status = NULL
    /\ tree = <<>>
    /\ tr_stack = <<>>
    /\ lz_pc = "idle"
    /\ lz_status = NULL
    /\ lz_nodes = <<>>
    /\ steps = 0
    /\ raised = FALSE

\* the SQLite database of the desktop calculators is not in use
NoSqlite ==
    /\ bom_items = <<>>
    /\ production_stages = <<>>
    /\ bom = <<>>
    /\ temp_orders = [ exists |-> FALSE, rows |-> <<>> ]
    /\ cn_pc = <<>>
    /\ cn_orders = <<>>
    /\ cn_result = <<>>
    /\ ex_args = <<>>
    /\ ex_results = <<>>

\* no plan entry is being saved
NoPlan ==
    /\ plan_entries = <<>>
    /\ up_pc = <<>>
    /\ up_req = <<>>
    /\ up_rows = <<>>
    /\ up_calls = 0

\* no sync has run
NoSync ==
    /\ progress_state = <<>>
    /\ sync_pc = <<>>
    /\ sync_processed = <<>>

InitCall ==
    /\ CallIdle
    /\ NoSqlite
    /\ NoPlan
    /\ NoSync

\* POST /v1/stages/calculate has no parameter the explosion reads
StagesQuery ==
    /\ request = "stages"
    /\ req_item_id = NULL
    /\ root_qty = NULL
    /\ max_depth = NULL
    /\ req_parent_id = <<>>
    /\ req_depth = 0

InitStages ==
    /\ QuantityCatalog \/ StageCatalog \/ ChainCatalog
    /\ StagesQuery
    /\ InitCall

SpecStages == InitStages /\ [][NextStages]_vars

(***************************************************************************)
(* The specification graph as the claims speak of it: an edge is a row of  *)
(* the default specification of an item, a path is a sequence of rows.     *)
(***************************************************************************)
\* component_ids of the rows of the default specification of item
RowsOf(item) ==
    IF item \in DOMAIN default_spec_map
    THEN {k \in 1 .. Len(spec_components) :
              spec_components[k].spec_id = default_spec_map[item]}
    ELSE {}

\* rows with a quantity > 0: the only ones that have effect
EffRowsOf(item) == {k \in RowsOf(item) : spec_components[k].quantity > 0}

\* some walk of n rows starts at item
RECURSIVE LongWalk(_, _)
LongWalk(item, n) ==
    \/ n = 0
    \/ \E k \in RowsOf(item) : LongWalk(spec_components[k].item_id, n - 1)

\* no item lies on a cycle: no walk is longer than the number of items
Acyclic == \A i \in DOMAIN items : ~LongWalk(i, Cardinality(DOMAIN items))

\* the paths of at most n effective rows that start at item
RECURSIVE PathsFrom(_, _)
PathsFrom(item, n) ==
    IF n = 0 THEN {}
    ELSE UNION { {<<k>>} \cup {<<k>> \o p : p \in PathsFrom(spec_components[k].item_id, n - 1)}
                 : k \in EffRowsOf(item) }

\* the product of the quantities along path p, for one unit of the root
RECURSIVE PathQty(_)
PathQty(p) ==
    IF p = <<>> THEN QS
    ELSE (PathQty(SubSeq(p, 1, Len(p) - 1)) * spec_components[p[Len(p)]].quantity) \div QS

RECURSIVE SumQty(_)
SumQty(P) ==
    IF P = {} THEN 0
    ELSE LET p == CHOOSE x \in P : TRUE IN PathQty(p) + SumQty(P \ {p})

\* the paths of P whose last row puts item c on stage s
PathsTo(P, s, c) ==
    {p \in P :
        /\ spec_components[p[Len(p)]].stage_id = s
        /\ spec_components[p[Len(p)]].item_id = c}

\* the component entries of the result: <<stage, block, component>> positions
AllEntries ==
    UNION { UNION { {<<a, b, k>> : k \in 1 .. Len(stages_out[a].products[b].components)}
                    : b \in 1 .. Len(stages_out[a].products) }
            : a \in 1 .. Len(stages_out) }

EntryStage(e) == stages_out[e[1]].stage_id
EntryRoot(e) == stages_out[e[1]].products[e[2]].root_item_id
EntryItem(e) == stages_out[e[1]].products[e[2]].components[e[3]].item_id
EntryQty(e) == stages_out[e[1]].products[e[2]].components[e[3]].qty_per_unit

\* the entries of the root of e that are for the same (stage, component)
SameKey(e) ==
    {d \in AllEntries : /\ EntryRoot(d) = EntryRoot(e)
                        /\ EntryStage(d) = EntryStage(e)
                        /\ EntryItem(d) = EntryItem(e)}

\* the entries of every root agree with the sums over the paths of at most n rows
MergedUpTo(n) ==
    \A r \in Range(root_item_ids) :
        LET P == PathsFrom(r, n)
        IN  \A e \in {d \in AllEntries : EntryRoot(d) = r} :
                /\ SameKey(e) = {e}
                /\ EntryQty(e) = SumQty(PathsTo(P, EntryStage(e), EntryItem(e)))

\* C1 as stated: in an acyclic graph every entry is the sum over all paths
C1_MergedOverAllPaths ==
    (st_pc = "done" /\ Acyclic) => MergedUpTo(Cardinality(DOMAIN items))

\* C1 amended: in an acyclic graph a root has at most one entry per (stage,
\* component), and its qty_per_unit is the sum, over the paths of at most
\* StageDepthLimit + 1 rows from the root that end in that component on that
\* stage, of the product of the quantities along the path
C1_MergedWithinDepth ==
    (st_pc = "done" /\ Acyclic) => MergedUpTo(StageDepthLimit + 1)

\* an entry that merges two paths of different lengths, summed
C1_Witness ==
    /\ st_pc = "done"
    /\ Acyclic
    /\ \E e \in AllEntries :
          \E p, q \in PathsTo(PathsFrom(EntryRoot(e), StageDepthLimit + 1),
                               EntryStage(e), EntryItem(e)) :
              Len(p) # Len(q) /\ PathQty(p) # PathQty(q)

(***************************************************************************)
(* The depth of the stage aggregation.                                     *)
(***************************************************************************)
DefaultMaxDepth == 15

\* the step taken adds the quantity of a component edge to a bucket
EdgeAccumulated == st_pc = "expand" /\ stage_qty_map' # stage_qty_map

Manufactured(item_id) ==
    /\ item_id \in DOMAIN items
    /\ items[item_id].replenishment_method = "Production"

\* C6: a bucket key, and so a component entry of the output, is always of
\* a manufactured item and of an edge that carries a stage
C6_OnlyManufacturedWithStage ==
    /\ \A key \in DOMAIN stage_qty_map :
          /\ key[1] # NULL
          /\ Manufactured(key[2])
          /\ \E k \in 1 .. Len(spec_components) :
                /\ spec_components[k].stage_id = key[1]
                /\ spec_components[k].item_id = key[2]
    /\ \A e \in AllEntries :
          /\ EntryStage(e) # NULL
          /\ Manufactured(EntryItem(e))

\* a purchased component on a stage and a manufactured one without stage
\* were both expanded under the root and left out of an output with entries
C6_Witness ==
    /\ st_pc = "done"
    /\ AllEntries # {}
    /\ \E k \in EffRowsOf(1) :
          /\ spec_components[k].stage_id # NULL
          /\ ~Manufactured(spec_components[k].item_id)
    /\ \E k \in EffRowsOf(1) :
          /\ spec_components[k].stage_id = NULL
          /\ Manufactured(spec_components[k].item_id)

(***************************************************************************)
(* Quantities <= 0 and the descent.                                        *)
(***************************************************************************)
\* the loop of the running call stands at a component
AtComponent ==
    /\ st_pc = "expand"
    /\ steps < MaxSteps
    /\ stack # <<>>
    /\ Top.i <= Len(Top.comps)

\* the path quantity of the component the loop stands at, times QS
PathQtyHere == Top.multiplier * Top.comps[Top.i].quantity

\* C7: a component edge whose path quantity is <= 0 adds nothing to any
\* bucket and no call of expand is made for it; every call of expand that
\* runs has a multiplier > 0
C7_NonPositiveSkipped ==
    [][ /\ (AtComponent /\ PathQtyHere <= 0) =>
              /\ stage_qty_map' = stage_qty_map
              /\ Len(stack') = Len(stack)
              /\ stack'[Len(stack')].item_id = Top.item_id
        /\ \A k \in 1 .. Len(stack') : stack'[k].multiplier > 0 ]_vars

\* a component with quantity 0 whose own specification has effective rows
\* has just been passed over
C7_Witness ==
    /\ st_pc = "expand"
    /\ stack # <<>>
    /\ Top.i > 1
    /\ Top.comps[Top.i - 1].quantity = 0
    /\ Top.comps[Top.i - 1].item_id \notin Top.new_path
    /\ EffRowsOf(Top.comps[Top.i - 1].item_id) # {}

\* C9: every component with positive path quantity whose item has a default
\* specification, is not on the path and is within the depth limit is
\* expanded with the multiplied quantity, whether or not it entered a bucket
C9_DescendsRegardlessOfBucket ==
    [][ ( /\ AtComponent
          /\ PathQtyHere > 0
          /\ Top.comps[Top.i].item_id \in DOMAIN default_spec_map
          /\ Top.comps[Top.i].item_id \notin Top.new_path
          /\ Top.depth + 1 <= StageDepthLimit )
        => /\ Len(stack') = Len(stack) + 1
           /\ stack'[Len(stack')].item_id = Top.comps[Top.i].item_id
           /\ stack'[Len(stack')].multiplier = PathQtyHere \div QS
           /\ stack'[Len(stack')].depth = Top.depth + 1 ]_vars

\* a component of an excluded component (purchased, or on an edge without
\* stage) has been accumulated with the multiplied quantity
C9_Witness ==
    /\ st_pc = "expand"
    /\ Len(stack) >= 2
    /\ LET parent == stack[Len(stack) - 1]
           edge   == parent.comps[parent.i - 1]
       IN  /\ edge.item_id = Top.item_id
           /\ edge.stage_id = NULL \/ ~Manufactured(edge.item_id)
    /\ Top.multiplier > QS
    /\ Top.i > 1
    /\ LET c == Top.comps[Top.i - 1]
       IN  /\ <<c.stage_id, c.item_id>> \in DOMAIN stage_qty_map
           /\ stage_qty_map[<<c.stage_id, c.item_id>>] = (Top.multiplier * c.quantity) \div QS

(***************************************************************************)
(* Specification tree (routers/specification.py): values.                  *)
(* A quantity of the tree is a float shown with at most 6 decimals: an     *)
(* integer in 1/TS.  None is the empty tuple, a present value a 1-tuple.   *)
(***************************************************************************)
TS == 1000000

\* time norms are DECIMAL(10, 4): integers in 1/TN
TN == 10000

None == <<>>

Some(v) == <<v>>

RECURSIVE Pow10(_)
Pow10(n) == IF n = 0 THEN 1 ELSE 10 * Pow10(n - 1)

\* Decimal(str(val)).quantize(Decimal("1." + "0" * places)): half to even
_round_qty(val, places) ==
    LET step == Pow10(6 - places)
        q    == val \div step
        r    == val % step
    IN  IF 2 * r < step THEN q * step
        ELSE IF 2 * r > step THEN (q + 1) * step
        ELSE IF q % 2 = 0 THEN q * step
        ELSE (q + 1) * step

\* parent_tree_qty * qty_per_parent: a tree quantity times a DECIMAL(10, 3)
TreeMul(tree_qty, quantity) ==
    tree_qty * (quantity \div QS) + (tree_qty * (quantity % QS)) \div QS

\* _round_time: the same quantize as _round_qty
_round_time(val, places) == _round_qty(val, places)

\* time_norm * parent_tree_qty: a DECIMAL(10, 4) times a tree quantity
TimeMul(time_norm, tree_qty) ==
    tree_qty * (time_norm \div TN) + (tree_qty * (time_norm % TN)) \div TN

(***************************************************************************)
(* Resolution of the specification of an item.                             *)
(***************************************************************************)
\* the row .first() returns for the item, if any
_get_default_spec_id(for_item_id) ==
    LET OfItem(r) == r.item_id = for_item_id
        recs      == SelectSeq(default_specs, OfItem)
    IN  IF recs # <<>> /\ recs[1].spec_id # NULL THEN recs[1].spec_id ELSE NULL

\* a slip of _resolve_spec_id_for_item: without a match the newest
\* specification of all is taken
_resolve_spec_id_for_itemAnySpec(for_item_id) ==
    LET sid   == _get_default_spec_id(for_item_id)
        item  == items[for_item_id]
        match == {k \in 1 .. Len(specifications) :
                     \/ specifications[k].spec_code = item.item_code
                     \/ specifications[k].spec_name = item.item_name}
        ids   == {specifications[k].spec_id : k \in match}
        all   == {specifications[k].spec_id : k \in 1 .. Len(specifications)}
    IN  IF sid # NULL THEN sid
        ELSE IF ids # {} THEN CHOOSE m \in ids : \A o \in ids : o <= m
        ELSE IF all # {} THEN CHOOSE m \in all : \A o \in all : o <= m
        ELSE NULL

\* a slip of _resolve_spec_id_for_item: the oldest match is taken
_resolve_spec_id_for_itemOldest(for_item_id) ==
    LET sid   == _get_default_spec_id(for_item_id)
        item  == items[for_item_id]
        match == {k \in 1 .. Len(specifications) :
                     \/ specifications[k].spec_code = item.item_code
                     \/ specifications[k].spec_name = item.item_name}
        ids   == {specifications[k].spec_id : k \in match}
    IN  IF sid # NULL THEN sid
        ELSE IF ids # {} THEN CHOOSE m \in ids : \A o \in ids : m <= o
        ELSE NULL

\* default specification first, then the newest specification whose code or
\* name is that of the item
_resolve_spec_id_for_item(for_item_id) ==
    LET sid   == _get_default_spec_id(for_item_id)
        item  == items[for_item_id]
        match == {k \in 1 .. Len(specifications) :
                     \/ specifications[k].spec_code = item.item_code
                     \/ specifications[k].spec_name = item.item_name}
        ids   == {specifications[k].spec_id : k \in match}
    IN  IF sid # NULL THEN sid
        ELSE IF ids # {} THEN CHOOSE m \in ids : \A o \in ids : o <= m
        ELSE NULL

_resolve_spec_id_for_item_id(for_item_id) ==
    IF for_item_id \notin DOMAIN items THEN NULL
    ELSE _resolve_spec_id_for_item(for_item_id)

\* a slip of _has_children: the operation rows are not counted
_has_childrenComponentsOnly(for_item_id) ==
    LET spec_id == _resolve_spec_id_for_item_id(for_item_id)
    IN  /\ spec_id # NULL
        /\ \E k \in 1 .. Len(spec_components) : spec_components[k].spec_id = spec_id

\* the resolved specification has a component row or an operation row
_has_children(for_item_id) ==
    LET spec_id == _resolve_spec_id_for_item_id(for_item_id)
    IN  /\ spec_id # NULL
        /\ \/ \E k \in 1 .. Len(spec_components) : spec_components[k].spec_id = spec_id
           \/ \E k \in 1 .. Len(spec_operations) : spec_operations[k].spec_id = spec_id

(***************************************************************************)
(* Nodes.                                                                  *)
(***************************************************************************)
\* "children" is a key _recurse adds: a new node has none
_make_item_node(item, parent_id, qty_per_parent, tree_qty, stage, has_children, warnings) ==
    [ id           |-> <<"item", item, _round_qty(tree_qty, 6)>>,
      parentId     |-> parent_id,
      type         |-> "item",
      stage        |-> stage,
      qtyPerParent |-> IF qty_per_parent = None THEN None
                       ELSE Some(_round_qty(qty_per_parent[1], 3)),
      timeNormNh   |-> None,
      treeQty      |-> Some(_round_qty(tree_qty, 3)),
      treeTimeNh   |-> None,
      hasChildren  |-> has_children,
      warnings     |-> warnings,
      item         |-> item,
      children     |-> None ]

_make_operation_node(spec_operation_id, op, parent_node_id, parent_item, parent_tree_qty, stage, warnings) ==
    [ id           |-> <<"op", spec_operation_id, parent_item, _round_qty(parent_tree_qty, 6)>>,
      parentId     |-> parent_node_id,
      type         |-> "operation",
      stage        |-> stage,
      qtyPerParent |-> None,
      timeNormNh   |-> Some(_round_time(op.time_norm * (TS \div TN), 3)),
      treeQty      |-> None,
      treeTimeNh   |-> Some(_round_time(TimeMul(op.time_norm, parent_tree_qty), 3)),
      hasChildren  |-> FALSE,
      warnings     |-> warnings,
      item         |-> parent_item,
      children     |-> None ]

\* the node of one component row of the parent's specification
ItemChild(comp, parent_tree_qty, parent_node_id) ==
    LET qty_per_parent == comp.quantity * (TS \div QS)
        child_tree_qty == TreeMul(parent_tree_qty, comp.quantity)
        warn           == IF comp.stage_id = NULL THEN <<"NO_STAGE">> ELSE <<>>
    IN  _make_item_node(comp.item_id, parent_node_id, Some(qty_per_parent),
                        child_tree_qty, comp.stage_id,
                        _has_children(comp.item_id), warn)

\* the node of one operation row of the parent's specification
OperationChild(spec_op, for_item_id, parent_tree_qty, parent_node_id) ==
    LET warn == (IF spec_op.stage_id = NULL THEN <<"NO_STAGE">> ELSE <<>>)
                \o (IF spec_op.time_norm <= 0 THEN <<"NO_TIME_NORM">> ELSE <<>>)
    IN  _make_operation_node(spec_op.spec_operation_id,
                             operations[spec_op.operation_id], parent_node_id,
                             for_item_id, parent_tree_qty, spec_op.stage_id, warn)

\* the component rows of a specification, joined with their items
ComponentRows(spec_id) ==
    LET Joined(r) == r.spec_id = spec_id /\ r.item_id \in DOMAIN items
    IN  SelectSeq(spec_components, Joined)

OperationRows(spec_id) ==
    LET Joined(r) == r.spec_id = spec_id /\ r.operation_id \in DOMAIN operations
    IN  SelectSeq(spec_operations, Joined)

\* item nodes of every component row, then operation nodes
_children_for_item(for_item_id, parent_tree_qty, parent_node_id) ==
    LET spec_id  == _resolve_spec_id_for_item_id(for_item_id)
        comps    == ComponentRows(spec_id)
        spec_ops == OperationRows(spec_id)
    IN  IF spec_id = NULL THEN <<>>
        ELSE [k \in 1 .. Len(comps) |->
                 ItemChild(comps[k], parent_tree_qty, parent_node_id)]
             \o [k \in 1 .. Len(spec_ops) |->
                 OperationChild(spec_ops[k], for_item_id, parent_tree_qty, parent_node_id)]

(***************************************************************************)
(* _build_full_tree._recurse.  The nested dicts are held flat: the address *)
(* of a node is the sequence of child positions from the root, <<>> the    *)
(* root itself; children |-> <<n>> says the node has a list of n children. *)
(***************************************************************************)
\* curr_node["children"] = children
Attach(t, addr, children) ==
    LET new == {Append(addr, k) : k \in 1 .. Len(children)}
    IN  [a \in DOMAIN t \cup new |->
            IF a \in new THEN children[a[Len(a)]]
            ELSE IF a = addr THEN [t[a] EXCEPT !.children = Some(Len(children))]
            ELSE t[a]]

\* a slip of RecurseReturnsEarly: one level too many
RecurseReturnsEarlyLate(depth) == depth > max_depth

\* if depth >= int(max_depth or 0): return
RecurseReturnsEarly(depth) == depth >= max_depth

\* the tree and the stack after _recurse is called on the node at addr: the
\* call returns at once, or attaches the children and starts its loop
RecurseCall(t, st, addr, curr_item_id, curr_tree_qty, depth, path) ==
    IF RecurseReturnsEarly(depth) THEN <<t, st>>
    ELSE LET children == _children_for_item(curr_item_id, curr_tree_qty, t[addr].id)
         IN  << Attach(t, addr, children),
                Append(st, [ addr          |-> addr,
                             curr_item_id  |-> curr_item_id,
                             curr_tree_qty |-> curr_tree_qty,
                             depth         |-> depth,
                             path          |-> path,
                             n             |-> Len(children),
                             i             |-> 1 ]) >>

\* a slip of InPath: the root is not counted among the ancestors
InPathBelowRoot(cid, path) == cid \in path \ {req_item_id}

\* if cid in path
InPath(cid, path) == cid \in path

\* w.append("CYCLE_DETECTED") unless it is there
Flagged(node) ==
    IF \E k \in 1 .. Len(node.warnings) : node.warnings[k] = "CYCLE_DETECTED"
    THEN node
    ELSE [node EXCEPT !.warnings = Append(@, "CYCLE_DETECTED")]

\* a slip of AfterCycle: break, the later children are left alone
AfterCycleBreak(st) == [st EXCEPT ![Len(st)].i = st[Len(st)].n + 1]

\* continue: the loop goes on with the next child
AfterCycle(st) == Advance(st)

\* ch_tree_qty = computed.treeQty of the child, the rounded quantity
ChTreeQty(ch) == ch.treeQty[1]

TrTop == tr_stack[Len(tr_stack)]

\* GET /v1/specification/full for a known item: the root node is made and
\* _recurse is called on it
FullStart ==
    /\ request = "full"
    /\ tr_pc = "idle"
    /\ req_item_id \in DOMAIN items
    /\ LET node == _make_item_node(req_item_id, None, None, root_qty, NULL,
                                   _has_children(req_item_id), <<>>)
           call == RecurseCall(<<>> :> node, <<>>, <<>>, req_item_id, root_qty,
                               0, {req_item_id})
       IN  /\ tree' = call[1]
           /\ tr_stack' = call[2]
    /\ tr_pc' = "recurse"
    /\ steps' = 0
    /\ UNCHANGED <<catalog, beyond, query, stvars, lzvars, tr_status>>

\* GET /v1/specification/full for an unknown item: 404
FullNotFound ==
    /\ request = "full"
    /\ tr_pc = "idle"
    /\ req_item_id \notin DOMAIN items
    /\ tr_pc' = "done"
    /\ tr_status' = 404
    /\ steps' = 0
    /\ UNCHANGED <<catalog, beyond, query, stvars, lzvars, tree, tr_stack>>

\* one iteration of "for ch in children" in the running call of _recurse
RecurseStep ==
    /\ tr_pc = "recurse"
    /\ steps < MaxSteps
    /\ tr_stack # <<>>
    /\ TrTop.i <= TrTop.n
    /\ LET at == Append(TrTop.addr, TrTop.i)
           ch == tree[at]
       IN  IF ch.type # "item"
           THEN /\ tr_stack' = Advance(tr_stack)
                /\ UNCHANGED tree
           ELSE IF InPath(ch.item, TrTop.path)
           THEN /\ tree' = [tree EXCEPT ![at] = Flagged(ch)]
                /\ tr_stack' = AfterCycle(tr_stack)
           ELSE LET call == RecurseCall(tree, Advance(tr_stack), at, ch.item,
                                        ChTreeQty(ch), TrTop.depth + 1,
                                        TrTop.path \cup {ch.item})
                IN  /\ tree' = call[1]
                    /\ tr_stack' = call[2]
    /\ steps' = steps + 1
    /\ UNCHANGED <<catalog, beyond, query, stvars, lzvars, tr_pc, tr_status>>

\* the running call of _recurse has no child left and returns
RecurseReturn ==
    /\ tr_pc = "recurse"
    /\ steps < MaxSteps
    /\ tr_stack # <<>>
    /\ TrTop.i > TrTop.n
    /\ tr_stack' = Pop(tr_stack)
    /\ steps' = steps + 1
    /\ UNCHANGED <<catalog, beyond, query, stvars, lzvars, tr_pc, tr_status, tree>>

\* _recurse of the root returned: {"nodes": [root_node], "meta": ...}
FullReturn ==
    /\ tr_pc = "recurse"
    /\ steps < MaxSteps
    /\ tr_stack = <<>>
    /\ tr_pc' = "done"
    /\ tr_status' = 200
    /\ steps' = steps + 1
    /\ UNCHANGED <<catalog, beyond, query, stvars, lzvars, tree, tr_stack>>

NextTree ==
    \/ FullStart
    \/ FullNotFound
    \/ RecurseStep
    \/ RecurseReturn
    \/ FullReturn

(***************************************************************************)
(* Catalogs and queries of the tree.                                       *)
(***************************************************************************)
\* max_depth: int = Query(15, ge=1, le=50)
MaxDepthLimit == 50

DepthValues == {1, 2, DefaultMaxDepth}

\* small catalogs that vary the component rows, cycles included, and the way
\* the specification of item 2 is found: by default row, by code, by name
TreeCatalog ==
    /\ items = ItemTable(NumItems, [i \in 1 .. NumItems |-> "Production"])
    /\ spec_components \in CompTables(QtyValues, {1})
    /\ \E res \in {"default", "code", "name"} :
          /\ default_specs = DefaultRows(IF res = "default" THEN 1 .. NumItems
                                         ELSE (1 .. NumItems) \ {2})
          /\ specifications = SpecTable(NumItems,
                                        IF res = "code" THEN {2} ELSE {},
                                        IF res = "name" THEN {2} ELSE {})
    /\ spec_operations = <<>>
    /\ operations = <<>>
    /\ root_products = RootRows(<<1>>)
    /\ req_item_id = 1
    /\ root_qty = TS
    /\ max_depth \in DepthValues

\* a fixed assembly 1 -> 2 -> 3 with operations, stages and fractions of a
\* unit; the item asked for may be unknown
OperationCatalog ==
    /\ items = ItemTable(NumItems, [i \in 1 .. NumItems |-> "Production"])
    /\ \E s \in StageIds \cup {NULL}, q1, q2 \in {QS, 2 * QS} :
          spec_components =
              << [ spec_id |-> 1, item_id |-> 2, quantity |-> q1, stage_id |-> s ],
                 [ spec_id |-> 2, item_id |-> 3, quantity |-> q2, stage_id |-> 1 ] >>
    /\ default_specs = DefaultRows(1 .. NumItems)
    /\ specifications = SpecTable(NumItems, {}, {})
    /\ \E on \in 1 .. NumItems, s \in StageIds \cup {NULL}, t \in {0, 2 * TN} :
          /\ spec_operations =
                << [ spec_operation_id |-> 1, spec_id |-> on, operation_id |-> 1,
                     stage_id |-> s, time_norm |-> t ] >>
          /\ operations = << [ time_norm |-> 3 * TN - t ] >>
    /\ root_products = RootRows(<<1>>)
    /\ req_item_id \in 1 .. (NumItems + 1)
    /\ root_qty \in {TS, 1500, 500}
    /\ max_depth \in DepthValues

\* the chain 1 -> 2 -> ... -> n, deeper than every max_depth of the route
TreeChainCatalog ==
    \E n \in (MaxChain - 1) .. MaxChain :
        /\ items = ItemTable(n, [i \in 1 .. n |-> "Production"])
        /\ spec_components =
              [k \in 1 .. (n - 1) |->
                  [ spec_id |-> k, item_id |-> k + 1, quantity |-> QS, stage_id |-> 1 ]]
        /\ default_specs = DefaultRows(1 .. n)
        /\ NoOperations
        /\ root_products = RootRows(<<1>>)
        /\ req_item_id = 1
        /\ root_qty = TS
        /\ max_depth \in {DefaultMaxDepth, MaxDepthLimit}

\* GET /full has no parent_id and no depth
FullQuery ==
    /\ request = "full"
    /\ req_parent_id = None
    /\ req_depth = 0

InitTree ==
    /\ TreeCatalog \/ OperationCatalog \/ TreeChainCatalog
    /\ FullQuery
    /\ InitCall

SpecTree == InitTree /\ [][NextTree]_vars

(***************************************************************************)
(* Both explosions on the same catalog: requests are served one after the  *)
(* other.                                                                  *)
(***************************************************************************)
\* the next request arrives once the running one is answered
Arrive ==
    /\ \/ /\ request = "stages" /\ st_pc = "done" /\ tr_pc = "idle"
          /\ request' = "full"
          /\ req_item_id' \in 1 .. (NumItems + 1)
          /\ root_qty' = TS
          /\ max_depth' \in {1, DefaultMaxDepth, MaxDepthLimit}
       \/ /\ request = "full" /\ tr_pc = "done" /\ st_pc = "idle"
          /\ request' = "stages"
          /\ req_item_id' = NULL
          /\ root_qty' = NULL
          /\ max_depth' = NULL
    /\ req_parent_id' = None
    /\ req_depth' = 0
    /\ UNCHANGED <<catalog, beyond, stvars, trvars, lzvars, steps>>

\* small catalogs of whole units whose component rows form any graph on the
\* items: self-loops, cycles A -> B -> A, rows repeated
CycleCatalog ==
    /\ items = ItemTable(NumItems, [i \in 1 .. NumItems |-> "Production"])
    /\ spec_components \in CompTables({QS}, {1})
    /\ \E D \in {1 .. NumItems, (1 .. NumItems) \ {2}} : default_specs = DefaultRows(D)
    /\ \E ids \in {<<1>>, <<2, 1>>} : root_products = RootRows(ids)
    /\ NoOperations

InitDescent ==
    /\ CycleCatalog
    /\ \/ StagesQuery
       \/ /\ FullQuery
          /\ req_item_id \in 1 .. (NumItems + 1)
          /\ root_qty = TS
          /\ max_depth \in {1, DefaultMaxDepth, MaxDepthLimit}
    /\ InitCall

NextDescent ==
    \/ NextStages
    \/ NextTree
    \/ Arrive

SpecDescent == InitDescent /\ [][NextDescent]_vars

(***************************************************************************)
(* C2: on every finite specification graph, cycles and self-loops          *)
(* included, the eager tree build and the stage aggregation terminate: a   *)
(* request that is not answered yet can always take its next step, no      *)
(* request uses up the step budget, and the stack of either recursion is   *)
(* never higher than the number of items (of _recurse: nor than max_depth).*)
(***************************************************************************)
C2_DescentsReturn ==
    /\ request = "stages" => (st_pc = "done" \/ ENABLED NextStages)
    /\ request = "full" => (tr_pc = "done" \/ ENABLED NextTree)
    /\ Len(stack) <= Cardinality(DOMAIN items)
    /\ Len(tr_stack) <= Cardinality(DOMAIN items)
    /\ request = "full" => Len(tr_stack) <= max_depth

HasFlag(a) ==
    \E k \in 1 .. Len(tree[a].warnings) : tree[a].warnings[k] = "CYCLE_DETECTED"

\* both requests were answered on a graph with a cycle under the root: the
\* stage result is there and the tree has a flagged node
C2_Witness ==
    /\ ~Acyclic
    /\ st_pc = "done" /\ stages_out # <<>>
    /\ tr_pc = "done" /\ tr_status = 200
    /\ \E a \in DOMAIN tree : HasFlag(a) /\ Len(a) >= 2

(***************************************************************************)
(* C3: in the tree _build_full_tree returns, a node carries CYCLE_DETECTED *)
(* exactly if it is an item node whose item is that of one of its          *)
(* ancestors, the root included; a flagged node has no children.           *)
(***************************************************************************)
\* the addresses of the proper ancestors of a, the root included
Ancestors(a) == {SubSeq(a, 1, k) : k \in 0 .. (Len(a) - 1)}

IsPrefix(a, b) == Len(a) <= Len(b) /\ SubSeq(b, 1, Len(a)) = a

Returned == tr_pc = "done" /\ tr_status = 200

C3_FlaggedIffAncestor ==
    Returned =>
        \A a \in DOMAIN tree :
            /\ HasFlag(a) <=>
                  /\ tree[a].type = "item"
                  /\ \E b \in Ancestors(a) : tree[b].item = tree[a].item
            /\ HasFlag(a) =>
                  /\ tree[a].children = None
                  /\ \A b \in DOMAIN tree : IsPrefix(a, b) => b = a

\* a returned tree with a node flagged for the root's item two levels down,
\* beside nodes that are not flagged
C3_Witness ==
    /\ Returned
    /\ \E a \in DOMAIN tree :
          /\ HasFlag(a) /\ Len(a) = 2 /\ tree[a].item = req_item_id
          /\ \E b \in DOMAIN tree : Len(b) = 2 /\ tree[b].type = "item" /\ ~HasFlag(b)

(***************************************************************************)
(* C4: whatever the length of the chain, the tree of _build_full_tree has  *)
(* no node more than max_depth levels below the root.                      *)
(***************************************************************************)
C4_AtMostMaxDepthLevels ==
    \A a \in DOMAIN tree : Len(a) <= max_depth

\* a chain longer than max_depth was cut: the returned tree has a node on
\* level max_depth whose item has components, and nothing under it
C4_Witness ==
    /\ Returned
    /\ Len(items) > max_depth + 1
    /\ \E a \in DOMAIN tree :
          /\ Len(a) = max_depth
          /\ ComponentRows(_resolve_spec_id_for_item_id(tree[a].item)) # <<>>
          /\ tree[a].children = None

(***************************************************************************)
(* C8: in the tree, a component whose quantity per parent is <= 0 gives no *)
(* child node.                                                             *)
(***************************************************************************)
C8_NonPositiveNoNode ==
    \A a \in DOMAIN tree :
        (a # <<>> /\ tree[a].type = "item") => tree[a].qtyPerParent[1] > 0

(***************************************************************************)
(* C10: a cycle stops the descent on its branch only: in the returned tree *)
(* nothing hangs under a flagged node, and every item node beside it, with *)
(* all that is under that node, is expanded as _children_for_item says,    *)
(* down to max_depth; the request is answered with 200.                    *)
(***************************************************************************)
\* the children of the node at a are those of its item, flags aside
Expanded(a) ==
    LET ch == _children_for_item(tree[a].item, ChTreeQty(tree[a]), tree[a].id)
    IN  /\ tree[a].children = Some(Len(ch))
        /\ \A k \in 1 .. Len(ch) :
              /\ Append(a, k) \in DOMAIN tree
              /\ [tree[Append(a, k)] EXCEPT !.warnings = <<>>, !.children = None]
                    = [ch[k] EXCEPT !.warnings = <<>>]

\* the nodes beside a: the other children of its parent
Siblings(a) ==
    {b \in DOMAIN tree :
        /\ Len(b) = Len(a) /\ b # a
        /\ SubSeq(b, 1, Len(b) - 1) = SubSeq(a, 1, Len(a) - 1)}

C10_CycleStopsOneBranch ==
    tr_pc = "done" /\ tree # <<>> =>
        /\ tr_status = 200
        /\ \A a \in DOMAIN tree : HasFlag(a) =>
              /\ \A c \in DOMAIN tree : IsPrefix(a, c) => c = a
              /\ \A b \in Siblings(a) : \A c \in DOMAIN tree :
                    (/\ IsPrefix(b, c)
                     /\ tree[c].type = "item"
                     /\ ~HasFlag(c)
                     /\ Len(c) < max_depth) => Expanded(c)

\* a flagged node with an item node after it that got its own children
C10_Witness ==
    /\ Returned
    /\ \E a \in DOMAIN tree : \E b \in Siblings(a) :
          /\ HasFlag(a)
          /\ b[Len(b)] > a[Len(a)]
          /\ tree[b].type = "item"
          /\ tree[b].children # None /\ tree[b].children # Some(0)

(***************************************************************************)
(* C11: for a cycle A -> B, B -> A with root A, calculate_stages completes *)
(* and the bucket of B holds the quantity of the row A -> B exactly once:  *)
(* it is that quantity while A is expanded and in the result.              *)
(***************************************************************************)
\* row k is the only row that uses item b, it is a row of root a with a
\* quantity > 0 and a stage, and a row of b leads back to a
CycleRow(a, b, k) ==
    /\ a # b
    /\ k \in EffRowsOf(a)
    /\ spec_components[k].item_id = b
    /\ spec_components[k].stage_id # NULL
    /\ \A j \in 1 .. Len(spec_components) : spec_components[j].item_id = b => j = k
    /\ \E j \in EffRowsOf(b) : spec_components[j].item_id = a

\* the root being expanded, if any
RootHere ==
    IF root_idx <= Len(root_item_ids) THEN root_item_ids[root_idx] ELSE NULL

C11_CycleCountsOnce ==
    \A a \in Range(root_item_ids) : \A k \in EffRowsOf(a) :
        LET b   == spec_components[k].item_id
            key == <<spec_components[k].stage_id, b>>
            q   == spec_components[k].quantity
        IN  CycleRow(a, b, k) =>
                /\ (st_pc = "expand" /\ RootHere = a /\ key \in DOMAIN stage_qty_map)
                       => stage_qty_map[key] = q
                /\ (st_pc = "done" /\ Manufactured(b))
                       => \E e \in AllEntries :
                              /\ EntryRoot(e) = a /\ EntryStage(e) = key[1]
                              /\ EntryItem(e) = b /\ EntryQty(e) = q
                              /\ SameKey(e) = {e}

\* the calculation is done for a root on a cycle with a row of two units in
\* each direction, and the result has the entry of B
C11_Witness ==
    /\ st_pc = "done"
    /\ \E a \in Range(root_item_ids) : \E k \in EffRowsOf(a) :
          LET b == spec_components[k].item_id
          IN  /\ CycleRow(a, b, k)
              /\ spec_components[k].quantity = 2 * QS
              /\ \E j \in EffRowsOf(b) : /\ spec_components[j].item_id = a
                                         /\ spec_components[j].quantity = 2 * QS
              /\ \E e \in AllEntries : EntryRoot(e) = a /\ EntryItem(e) = b

(***************************************************************************)
(* C13: rounding happens only where a value is shown: the treeQty of a     *)
(* node of the eager tree, at any depth, is the rounding to 3 decimals of  *)
(* root_qty times the unrounded quantities per parent along its path.      *)
(***************************************************************************)
\* root_qty times the quantities per parent from the root down to a
RECURSIVE UnroundedQty(_)
UnroundedQty(a) ==
    IF a = <<>> THEN root_qty
    ELSE TreeMul(UnroundedQty(SubSeq(a, 1, Len(a) - 1)),
                 tree[a].qtyPerParent[1] \div (TS \div QS))

C13_RoundedOnlyWhenShown ==
    \A a \in DOMAIN tree :
        tree[a].type = "item" => tree[a].treeQty[1] = _round_qty(UnroundedQty(a), 3)

(***************************************************************************)
(* get_specification_tree: the lazy route.  An id is held as the parts its *)
(* text splits into at ":"; the text of a float reads back as that float.  *)
(***************************************************************************)
\* a slip of _parse_node_id: the quantity of the id is not read, 1.0 is used
_parse_node_idDefaultQty(node_id) ==
    IF node_id = None THEN [ kind |-> "" ]
    ELSE IF node_id[1] = "item" /\ Len(node_id) >= 3
    THEN [ kind |-> "item", item_id |-> node_id[2], tree_qty |-> TS ]
    ELSE IF node_id[1] = "op" /\ Len(node_id) >= 4
    THEN [ kind |-> "op", spec_operation_id |-> node_id[2],
           parent_item_id |-> node_id[3], parent_tree_qty |-> TS ]
    ELSE [ kind |-> "" ]

\* item:{item_id}:{tree_qty} or op:{spec_operation_id}:{parent_item_id}:{parent_tree_qty}
_parse_node_id(node_id) ==
    IF node_id = None THEN [ kind |-> "" ]
    ELSE IF node_id[1] = "item" /\ Len(node_id) >= 3
    THEN [ kind |-> "item", item_id |-> node_id[2], tree_qty |-> node_id[3] ]
    ELSE IF node_id[1] = "op" /\ Len(node_id) >= 4
    THEN [ kind |-> "op", spec_operation_id |-> node_id[2],
           parent_item_id |-> node_id[3], parent_tree_qty |-> node_id[4] ]
    ELSE [ kind |-> "" ]

\* "nodes": the list as a map from <<position>> to node
NodeList(nodes) == [a \in {<<k>> : k \in 1 .. Len(nodes)} |-> nodes[a[1]]]

\* the children mode for the id of an item node
TreeChildren ==
    /\ request = "tree"
    /\ lz_pc = "idle"
    /\ req_parent_id # None
    /\ _parse_node_id(req_parent_id).kind = "item"
    /\ LET data == _parse_node_id(req_parent_id)
       IN  lz_nodes' = NodeList(_children_for_item(data.item_id, data.tree_qty,
                                                   req_parent_id))
    /\ lz_status' = 200
    /\ lz_pc' = "done"
    /\ UNCHANGED <<catalog, beyond, query, stvars, trvars, steps>>

\* the children mode for any other id: no nodes
TreeChildrenOfOther ==
    /\ request = "tree"
    /\ lz_pc = "idle"
    /\ req_parent_id # None
    /\ _parse_node_id(req_parent_id).kind # "item"
    /\ lz_nodes' = <<>>
    /\ lz_status' = 200
    /\ lz_pc' = "done"
    /\ UNCHANGED <<catalog, beyond, query, stvars, trvars, steps>>

\* the root mode: one item node, with its first level if depth >= 1
TreeRoot ==
    /\ request = "tree"
    /\ lz_pc = "idle"
    /\ req_parent_id = None
    /\ req_item_id \in DOMAIN items
    /\ LET node == _make_item_node(req_item_id, None, None, root_qty, NULL,
                                   _has_children(req_item_id), <<>>)
       IN  lz_nodes' =
              IF req_depth >= 1
              THEN Attach(NodeList(<<node>>), <<1>>,
                          _children_for_item(req_item_id, root_qty, node.id))
              ELSE NodeList(<<node>>)
    /\ lz_status' = 200
    /\ lz_pc' = "done"
    /\ UNCHANGED <<catalog, beyond, query, stvars, trvars, steps>>

\* the root mode without item_code, item_id and item_ref1c: 400
TreeBadRequest ==
    /\ request = "tree"
    /\ lz_pc = "idle"
    /\ req_parent_id = None
    /\ req_item_id = NULL
    /\ lz_status' = 400
    /\ lz_pc' = "done"
    /\ UNCHANGED <<catalog, beyond, query, stvars, trvars, lz_nodes, steps>>

\* the root mode for an unknown item: 404
TreeNotFound ==
    /\ request = "tree"
    /\ lz_pc = "idle"
    /\ req_parent_id = None
    /\ req_item_id # NULL
    /\ req_item_id \notin DOMAIN items
    /\ lz_status' = 404
    /\ lz_pc' = "done"
    /\ UNCHANGED <<catalog, beyond, query, stvars, trvars, lz_nodes, steps>>

NextLazy ==
    \/ TreeChildren
    \/ TreeChildrenOfOther
    \/ TreeRoot
    \/ TreeBadRequest
    \/ TreeNotFound

\* ids that no item node carries: an operation, a text without quantity
OtherIds == { <<"op", 1, 1, TS>>, <<"item", 1>> }

\* after GET /full is answered the client asks GET /tree: for the children of
\* a node it was given, of another id, or for a root
ArriveTree ==
    /\ request = "full"
    /\ tr_pc = "done"
    /\ lz_pc = "idle"
    /\ request' = "tree"
    /\ \/ /\ req_parent_id' \in {tree[a].id : a \in DOMAIN tree} \cup OtherIds
          /\ req_depth' = 0
          /\ UNCHANGED <<req_item_id, root_qty>>
       \/ /\ req_parent_id' = None
          /\ req_depth' \in 0 .. 2
          /\ req_item_id' \in (DOMAIN items) \cup {NULL, Len(items) + 1}
          /\ UNCHANGED root_qty
    /\ UNCHANGED <<catalog, beyond, max_depth, stvars, trvars, lzvars, steps>>

\* small catalogs of one or two units per row, cycles included, where the
\* specification of item 2 is found by default row, by code, or not at all
LazyCatalog ==
    /\ items = ItemTable(NumItems, [i \in 1 .. NumItems |-> "Production"])
    /\ spec_components \in CompTables({QS, 2 * QS}, {1})
    /\ \E res \in {"default", "code", "none"} :
          /\ default_specs = DefaultRows(IF res = "default" THEN 1 .. NumItems
                                         ELSE (1 .. NumItems) \ {2})
          /\ specifications = SpecTable(NumItems,
                                        IF res = "code" THEN {2} ELSE {}, {})
    /\ spec_operations = <<>>
    /\ operations = <<>>
    /\ root_products = RootRows(<<1>>)
    /\ req_item_id = 1
    /\ root_qty \in {TS, 1500}
    /\ max_depth \in {2, DefaultMaxDepth}

InitLazy ==
    /\ LazyCatalog \/ OperationCatalog
    /\ FullQuery
    /\ InitCall

NextBrowse ==
    \/ NextTree
    \/ ArriveTree
    \/ NextLazy

SpecLazy == InitLazy /\ [][NextBrowse]_vars

(***************************************************************************)
(* C12: for every item node of the eager tree that has children attached,  *)
(* GET /tree with parent_id equal to the id of that node returns the same  *)
(* immediate children: same ids, qtyPerParent, treeQty, treeTimeNh and     *)
(* warnings.                                                               *)
(***************************************************************************)
\* the children mode was answered
ChildrenAnswered == lz_pc = "done" /\ lz_status = 200 /\ req_parent_id # None

SameShown(x, y) ==
    /\ x.id = y.id
    /\ x.qtyPerParent = y.qtyPerParent
    /\ x.treeQty = y.treeQty
    /\ x.treeTimeNh = y.treeTimeNh
    /\ x.warnings = y.warnings

C12_LazyMatchesEager ==
    ChildrenAnswered =>
        \A a \in DOMAIN tree :
            (/\ tree[a].type = "item"
             /\ tree[a].id = req_parent_id
             /\ tree[a].children # None) =>
                /\ Cardinality(DOMAIN lz_nodes) = tree[a].children[1]
                /\ \A k \in 1 .. tree[a].children[1] :
                      SameShown(lz_nodes[<<k>>], tree[Append(a, k)])

(***************************************************************************)
(* C20: in the children mode of GET /tree, a child whose item is the item  *)
(* of the parent node named by parent_id is returned with CYCLE_DETECTED.  *)
(***************************************************************************)
C20_LazyFlagsParentItem ==
    (ChildrenAnswered /\ _parse_node_id(req_parent_id).kind = "item") =>
        \A a \in DOMAIN lz_nodes :
            (/\ lz_nodes[a].type = "item"
             /\ lz_nodes[a].item = _parse_node_id(req_parent_id).item_id) =>
                \E k \in 1 .. Len(lz_nodes[a].warnings) :
                    lz_nodes[a].warnings[k] = "CYCLE_DETECTED"

(***************************************************************************)
(* C19: the id of an item node addresses it without session state:         *)
(* _parse_node_id of the id _make_item_node gave for (item_id, tree_qty)   *)
(* is kind item with that item_id and tree_qty rounded to 6 decimals, and  *)
(* the children mode answers from the id and the catalog alone.            *)
(***************************************************************************)
\* the tree_qty _make_item_node was given for the eager node at a
EagerQty(a) ==
    IF a = <<>> THEN root_qty
    ELSE LET p == SubSeq(a, 1, Len(a) - 1)
         IN  TreeMul(IF p = <<>> THEN root_qty ELSE tree[p].treeQty[1],
                     tree[a].qtyPerParent[1] \div (TS \div QS))

ItemNodes ==
    {tree[a] : a \in {x \in DOMAIN tree : tree[x].type = "item"}}
    \cup {lz_nodes[a] : a \in {x \in DOMAIN lz_nodes : lz_nodes[x].type = "item"}}

\* the resolved specification of the item has a row
HasSpecRows(i) ==
    LET sid == _resolve_spec_id_for_item_id(i)
    IN  /\ sid # NULL
        /\ \E r \in Range(spec_components) \cup Range(spec_operations) : r.spec_id = sid

C17_HasChildrenIffRows ==
    \A n \in ItemNodes :
        /\ n.hasChildren <=> HasSpecRows(n.item)
        /\ n.hasChildren <=> _children_for_item(n.item, n.id[3], n.id) # <<>>

\* the lazy answer has a child with hasChildren, and the eager tree has it
\* on a flagged node, or on a node cut by the depth limit whose item has
\* operations only
C17_Witness ==
    /\ ChildrenAnswered
    /\ \E a \in DOMAIN lz_nodes : lz_nodes[a].type = "item" /\ lz_nodes[a].hasChildren
    /\ \/ \E a \in DOMAIN tree : HasFlag(a) /\ tree[a].hasChildren
       \/ \E a \in DOMAIN tree :
             /\ Len(a) = max_depth /\ tree[a].type = "item" /\ tree[a].hasChildren
             /\ ComponentRows(_resolve_spec_id_for_item_id(tree[a].item)) = <<>>

(***************************************************************************)
(* C18: an item without resolvable specification (no default row, no       *)
(* specification of its code or name) has hasChildren false and no         *)
(* children, in the eager tree and in both modes of GET /tree, and the     *)
(* answer is a normal one.                                                 *)
(***************************************************************************)
NoSpecification(i) ==
    /\ \A r \in Range(default_specs) : r.item_id # i
    /\ \A r \in Range(specifications) :
          r.spec_code # items[i].item_code /\ r.spec_name # items[i].item_name

\* nothing is attached under the node at a of the map t
Childless(t, a) ==
    /\ t[a].children \in {None, Some(0)}
    /\ \A b \in DOMAIN t : IsPrefix(a, b) => b = a

C18_NoSpecificationNoChildren ==
    /\ \A a \in DOMAIN tree :
          (tree[a].type = "item" /\ NoSpecification(tree[a].item)) =>
              /\ ~tree[a].hasChildren
              /\ Childless(tree, a)
              /\ tr_pc = "done" => tr_status = 200
    /\ \A a \in DOMAIN lz_nodes :
          (lz_nodes[a].type = "item" /\ NoSpecification(lz_nodes[a].item)) =>
              /\ ~lz_nodes[a].hasChildren
              /\ Childless(lz_nodes, a)
              /\ lz_status = 200
    /\ (/\ lz_pc = "done" /\ req_parent_id # None
        /\ _parse_node_id(req_parent_id).kind = "item"
        /\ NoSpecification(_parse_node_id(req_parent_id).item_id)) =>
              lz_nodes = <<>> /\ lz_status = 200

\* the children of a node of an item without specification were asked for;
\* in the eager tree that node got an empty list of children
C18_Witness ==
    /\ lz_pc = "done" /\ req_parent_id # None
    /\ \E a \in DOMAIN tree :
          /\ tree[a].type = "item" /\ tree[a].id = req_parent_id
          /\ NoSpecification(tree[a].item)
          /\ tree[a].children = Some(0)
    /\ \E i \in DOMAIN items : ~NoSpecification(i) /\ HasSpecRows(i)

(***************************************************************************)
(* Catalogs for the resolution of specifications: item 1 is made of item 2 *)
(* by its default specification 1; item 2 has any default rows, with or    *)
(* without characteristic, in any order of return, and specifications 2    *)
(* (one item 3) and 3 (two items 3) may carry its code or its name.        *)
(***************************************************************************)
\* the default rows of item 2: none, one, or two in either order
DefaultRowsOfItem2 ==
    LET Row == [ id : {2, 3}, item_id : {2}, characteristic_id : {NULL, 1},
                 spec_id : {2, 3} ]
    IN  {<<>>} \cup {<<r>> : r \in Row}
        \cup {p \in Row \X Row : p[1].id # p[2].id}

ResolverCatalog ==
    /\ items = ItemTable(NumItems, [i \in 1 .. NumItems |-> "Production"])
    /\ spec_components =
          << [ spec_id |-> 1, item_id |-> 2, quantity |-> QS, stage_id |-> 1 ],
             [ spec_id |-> 2, item_id |-> 3, quantity |-> QS, stage_id |-> 1 ],
             [ spec_id |-> 3, item_id |-> 3, quantity |-> 2 * QS, stage_id |-> 1 ] >>
    /\ \E rows \in DefaultRowsOfItem2 :
          default_specs = << [ id |-> 1, item_id |-> 1, characteristic_id |-> NULL,
                               spec_id |-> 1 ] >> \o rows
    /\ \E code, name \in [2 .. 3 -> BOOLEAN] :
          specifications =
              [k \in 1 .. 3 |->
                  [ spec_id   |-> k,
                    spec_code |-> IF k > 1 /\ code[k] THEN 2 ELSE 0 - k,
                    spec_name |-> IF k > 1 /\ name[k] THEN 2 ELSE 0 - k ]]
    /\ spec_operations = <<>>
    /\ operations = <<>>
    /\ \E ids \in {<<1>>, <<2, 1>>} : root_products = RootRows(ids)

InitResolve ==
    /\ ResolverCatalog
    /\ \/ StagesQuery
       \/ /\ FullQuery
          /\ req_item_id \in 1 .. (NumItems + 1)
          /\ root_qty = TS
          /\ max_depth \in {1, DefaultMaxDepth, MaxDepthLimit}
    /\ InitCall

SpecResolve == InitResolve /\ [][NextDescent]_vars

(***************************************************************************)
(* C14: _resolve_spec_id_for_item gives the specification of a default     *)
(* row of the item when the item has one; otherwise the specification with *)
(* the highest spec_id among those whose code is the item's code or whose  *)
(* name is the item's name; otherwise none.  The children of the root of   *)
(* the eager tree are the rows of that specification.                      *)
(***************************************************************************)
DefaultRowsOf(i) == {r \in Range(default_specs) : r.item_id = i}

Matching(i) ==
    {r.spec_id : r \in {x \in Range(specifications) :
                           \/ x.spec_code = items[i].item_code
                           \/ x.spec_name = items[i].item_name}}

\* sid is what C14 says of item i
Resolved(i, sid) ==
    IF DefaultRowsOf(i) # {} THEN sid \in {r.spec_id : r \in DefaultRowsOf(i)}
    ELSE IF Matching(i) # {} THEN sid \in Matching(i) /\ \A m \in Matching(i) : m <= sid
    ELSE sid = NULL

C14_DefaultThenNewestMatch ==
    /\ \A i \in DOMAIN items : Resolved(i, _resolve_spec_id_for_item(i))
    /\ (request = "full" /\ tr_pc = "done" /\ tr_status = 200) =>
          \E sid \in {NULL} \cup {r.spec_id : r \in Range(specifications)} :
              /\ Resolved(req_item_id, sid)
              /\ LET rows == {k \in 1 .. Len(spec_components) :
                                 spec_components[k].spec_id = sid}
                 IN  /\ tree[<<>>].children = Some(Cardinality(rows))
                     /\ \A k \in 1 .. Cardinality(rows) : \E j \in rows :
                           /\ tree[<<k>>].item = spec_components[j].item_id
                           /\ tree[<<k>>].qtyPerParent =
                                 Some(spec_components[j].quantity * (TS \div QS))

\* the tree of item 2 was built from specification 3, found by code or name
\* among two matches, item 2 having no default row
C14_Witness ==
    /\ request = "full" /\ tr_pc = "done" /\ tr_status = 200
    /\ req_item_id = 2
    /\ DefaultRowsOf(2) = {}
    /\ Matching(2) = {2, 3}
    /\ tree[<<1>>].qtyPerParent = Some(2 * TS)

(***************************************************************************)
(* C15: when an item has several default rows, _get_default_spec_id and    *)
(* calculate_stages both take the row with the lowest id, whatever order   *)
(* the rows are returned in.                                               *)
(***************************************************************************)
\* the default row of item i that was inserted first
FirstInserted(i) ==
    CHOOSE r \in DefaultRowsOf(i) : \A o \in DefaultRowsOf(i) : r.id <= o.id

C15_LowestIdDefaultWins ==
    \A i \in DOMAIN items :
        DefaultRowsOf(i) # {} =>
            /\ _get_default_spec_id(i) = FirstInserted(i).spec_id
            /\ default_spec_map[i] = FirstInserted(i).spec_id

(***************************************************************************)
(* C16: an item resolved without characteristic gets the default row whose *)
(* characteristic is null when it has one, in preference to its rows that  *)
(* carry a characteristic.                                                 *)
(***************************************************************************)
NullRowsOf(i) == {r \in DefaultRowsOf(i) : r.characteristic_id = NULL}

C16_NullCharacteristicPreferred ==
    \A i \in DOMAIN items :
        NullRowsOf(i) # {} =>
            /\ _get_default_spec_id(i) \in {r.spec_id : r \in NullRowsOf(i)}
            /\ default_spec_map[i] \in {r.spec_id : r \in NullRowsOf(i)}

(***************************************************************************)
(* Store failures.  A query of the store may raise; the routes catch the   *)
(* exception where the code has a try block.                               *)
(***************************************************************************)
\* GET /full: a query made before _build_full_tree enters its try block, or
\* after it, raises: "except Exception" of the route answers 500
FullRaises ==
    /\ request = "full"
    /\ tr_pc = "idle"
    /\ tr_pc' = "done"
    /\ tr_status' = 500
    /\ raised' = TRUE
    /\ steps' = 0
    /\ UNCHANGED <<besideFault, catalog, query, stvars, lzvars, tree, tr_stack>>

\* GET /full: the first query of _recurse raises: the exception is logged
\* and the root node is returned as it is
FullStartRaises ==
    /\ request = "full"
    /\ tr_pc = "idle"
    /\ req_item_id \in DOMAIN items
    /\ ~RecurseReturnsEarly(0)
    /\ tree' = <<>> :> _make_item_node(req_item_id, None, None, root_qty, NULL,
                                       _has_children(req_item_id), <<>>)
    /\ tr_stack' = <<>>
    /\ tr_pc' = "recurse"
    /\ raised' = TRUE
    /\ steps' = 0
    /\ UNCHANGED <<besideFault, catalog, query, stvars, lzvars, tr_status>>

\* GET /full: a query of a deeper call of _recurse raises: the exception
\* leaves every running call, is logged, and the node built so far is returned
RecurseRaises ==
    /\ tr_pc = "recurse"
    /\ steps < MaxSteps
    /\ tr_stack # <<>>
    /\ TrTop.i <= TrTop.n
    /\ LET ch == tree[Append(TrTop.addr, TrTop.i)]
       IN  /\ ch.type = "item"
           /\ ~InPath(ch.item, TrTop.path)
           /\ ~RecurseReturnsEarly(TrTop.depth + 1)
    /\ tr_stack' = <<>>
    /\ raised' = TRUE
    /\ steps' = steps + 1
    /\ UNCHANGED <<besideFault, catalog, query, stvars, lzvars, tr_pc, tr_status, tree>>

\* GET /tree: a query outside the pre-expand block raises: 500
TreeRaises ==
    /\ request = "tree"
    /\ lz_pc = "idle"
    /\ req_parent_id # None \/ req_item_id # NULL
    /\ lz_status' = 500
    /\ lz_pc' = "done"
    /\ raised' = TRUE
    /\ UNCHANGED <<besideFault, catalog, query, stvars, trvars, lz_nodes, steps>>

\* GET /tree with depth >= 1: a query of the pre-expand block raises: the
\* exception is logged and the root is answered with an empty children list
TreeRootRaises ==
    /\ request = "tree"
    /\ lz_pc = "idle"
    /\ req_parent_id = None
    /\ req_item_id \in DOMAIN items
    /\ req_depth >= 1
    /\ LET node == _make_item_node(req_item_id, None, None, root_qty, NULL,
                                   _has_children(req_item_id), <<>>)
       IN  lz_nodes' = Attach(NodeList(<<node>>), <<1>>, <<>>)
    /\ lz_status' = 200
    /\ lz_pc' = "done"
    /\ raised' = TRUE
    /\ UNCHANGED <<besideFault, catalog, query, stvars, trvars, steps>>

NextFault ==
    \/ FullRaises
    \/ FullStartRaises
    \/ RecurseRaises
    \/ TreeRaises
    \/ TreeRootRaises

\* ids of item nodes a client may send, the item known or not
AskedIds == { <<"item", i, TS>> : i \in 1 .. (NumItems + 1) }

\* small catalogs of one unit per row, cycles included
AskCatalog ==
    /\ items = ItemTable(NumItems, [i \in 1 .. NumItems |-> "Production"])
    /\ spec_components \in CompTables({QS}, {1})
    /\ default_specs = DefaultRows(1 .. NumItems)
    /\ NoOperations
    /\ root_products = RootRows(<<1>>)

\* one request of a tree route: GET /full, GET /tree for a root, GET /tree
\* for the children of a node
AskQuery ==
    /\ root_qty = TS
    /\ \/ /\ FullQuery
          /\ req_item_id \in 1 .. (NumItems + 1)
          /\ max_depth \in {1, 2}
       \/ /\ request = "tree"
          /\ req_parent_id = None
          /\ req_item_id \in {NULL, 1, NumItems + 1}
          /\ req_depth \in 0 .. 1
          /\ max_depth = DefaultMaxDepth
       \/ /\ request = "tree"
          /\ req_parent_id \in AskedIds \cup OtherIds
          /\ req_item_id = NULL
          /\ req_depth = 0
          /\ max_depth = DefaultMaxDepth

InitAsk ==
    /\ AskCatalog
    /\ AskQuery
    /\ InitCall

NextAsk ==
    \/ NextTree
    \/ NextLazy
    \/ NextFault

SpecAsk == InitAsk /\ [][NextAsk]_vars

\* the call of the route asked has answered
Answered == IF request = "full" THEN tr_pc = "done" ELSE lz_pc = "done"

Status == IF request = "full" THEN tr_status ELSE lz_status

\* the nodes of the answer
Nodes == IF request = "full" THEN tree ELSE lz_nodes

(***************************************************************************)
(* C21: when a store query raised while GET /full or GET /tree was being   *)
(* served, the route answers with an error status, never with 200 and a    *)
(* tree.                                                                   *)
(***************************************************************************)
C21_FailureFailsTheCall ==
    (Answered /\ raised) => Status >= 400

(***************************************************************************)
(* C22: a request of a tree route that names an item the store does not    *)
(* have (item_id of the root mode and of GET /full, the item id inside     *)
(* parent_id of the children mode) is answered 404.                        *)
(***************************************************************************)
\* the item the request names, NULL when it names none
NamedItem ==
    IF request = "tree" /\ req_parent_id # None
    THEN IF _parse_node_id(req_parent_id).kind = "item"
         THEN _parse_node_id(req_parent_id).item_id
         ELSE NULL
    ELSE req_item_id

C22_UnknownItemNotFound ==
    (Answered /\ ~raised /\ NamedItem # NULL /\ NamedItem \notin DOMAIN items)
        => Status = 404

(***************************************************************************)
(* SQLite REAL values: IEEE 754 doubles.  A positive double is m * 2^e     *)
(* with 2^52 <= m < 2^53; m is held as four limbs of 14 bits, lowest       *)
(* first, so that no product of limbs leaves the integers of the checker.  *)
(* Natural numbers of any size are sequences of such limbs.                *)
(***************************************************************************)
LimbBits == 14
LimbBase == 2 ^ LimbBits
MantBits == 53

Limb(p, k) == IF k >= 1 /\ k <= Len(p) THEN p[k] ELSE 0

RECURSIVE Carry(_, _, _)
Carry(w, k, c) ==
    IF k > Len(w)
    THEN IF c = 0 THEN <<>> ELSE <<c % LimbBase>> \o Carry(w, k, c \div LimbBase)
    ELSE <<(w[k] + c) % LimbBase>> \o Carry(w, k + 1, (w[k] + c) \div LimbBase)

RECURSIVE Conv(_, _, _, _)
Conv(a, b, k, i) ==
    IF i > Len(a) THEN 0
    ELSE Limb(a, i) * Limb(b, k + 1 - i) + Conv(a, b, k, i + 1)

NatMul(a, b) == Carry([k \in 1 .. (Len(a) + Len(b) - 1) |-> Conv(a, b, k, 1)], 1, 0)

NatAdd(a, b) ==
    LET n == IF Len(a) > Len(b) THEN Len(a) ELSE Len(b)
    IN  Carry([k \in 1 .. n |-> Limb(a, k) + Limb(b, k)], 1, 0)

RECURSIVE Trim(_)
Trim(p) == IF p # <<>> /\ p[Len(p)] = 0 THEN Trim(SubSeq(p, 1, Len(p) - 1)) ELSE p

RECURSIVE IntBits(_)
IntBits(n) == IF n = 0 THEN 0 ELSE 1 + IntBits(n \div 2)

BitLen(p) ==
    LET t == Trim(p)
    IN  IF t = <<>> THEN 0 ELSE LimbBits * (Len(t) - 1) + IntBits(t[Len(t)])

Bit(p, i) == (Limb(p, (i \div LimbBits) + 1) \div (2 ^ (i % LimbBits))) % 2

LowZero(p, i) ==
    /\ \A k \in 1 .. (i \div LimbBits) : Limb(p, k) = 0
    /\ Limb(p, (i \div LimbBits) + 1) % (2 ^ (i % LimbBits)) = 0

ShiftL(p, s) ==
    [k \in 1 .. (s \div LimbBits) |-> 0]
        \o Carry([k \in 1 .. Len(p) |-> p[k] * (2 ^ (s % LimbBits))], 1, 0)

ShiftR(p, s) ==
    LET a == s \div LimbBits
        b == s % LimbBits
    IN  [k \in 1 .. (Len(p) - a) |->
            (Limb(p, k + a) \div (2 ^ b))
            + (Limb(p, k + a + 1) % (2 ^ b)) * (2 ^ (LimbBits - b))]

Fit(p) == [k \in 1 .. 4 |-> Limb(p, k)]

Zero == [ m |-> <<0, 0, 0, 0>>, e |-> 0 ]

\* the double nearest to p * 2^e, ties to even
Round53(p, e) ==
    LET n == BitLen(p)
        s == n - MantBits
        q == ShiftR(p, s)
        up == Bit(p, s - 1) = 1 /\ (~LowZero(p, s - 1) \/ Bit(q, 0) = 1)
        r == IF up THEN NatAdd(q, <<1>>) ELSE q
    IN  IF n = 0 THEN Zero
        ELSE IF s <= 0 THEN [ m |-> Fit(ShiftL(p, 0 - s)), e |-> e + s ]
        ELSE IF BitLen(r) > MantBits THEN [ m |-> Fit(ShiftR(r, 1)), e |-> e + s + 1 ]
        ELSE [ m |-> Fit(r), e |-> e + s ]

FromInt(n) == Round53(Carry(<<n % LimbBase, (n \div LimbBase) % LimbBase, n \div (LimbBase * LimbBase)>>, 1, 0), 0)

FMul(x, y) == Round53(NatMul(x.m, y.m), x.e + y.e)

FAdd(x, y) ==
    IF x = Zero THEN y
    ELSE IF y = Zero THEN x
    ELSE LET e == IF x.e < y.e THEN x.e ELSE y.e
         IN  Round53(NatAdd(ShiftL(x.m, x.e - e), ShiftL(y.m, y.e - e)), e)

\* the doubles nearest to 0.1 and to 0.3
Tenth == [ m |-> <<6554, 9830, 6553, 1638>>, e |-> -56 ]
ThreeTenths == [ m |-> <<13107, 3276, 13107, 1228>>, e |-> -54 ]

(***************************************************************************)
(* The recursive queries of bom_calculator.py.  A row of bom_explosion is  *)
(* [item_id, total_qty, depth]; the rows come level by level.              *)
(***************************************************************************)
RECURSIVE FlattenSeq(_)
FlattenSeq(ss) == IF ss = <<>> THEN <<>> ELSE Head(ss) \o FlattenSeq(Tail(ss))

\* JOIN bom b ON b.parent_item_id = e.item_id WHERE e.depth < max_depth
Deeper(level, depth_limit) ==
    FlattenSeq([k \in 1 .. Len(level) |->
        IF level[k].depth < depth_limit
        THEN LET of_parent(b) == b.parent_item_id = level[k].item_id
                 rows == SelectSeq(bom, of_parent)
             IN  [j \in 1 .. Len(rows) |->
                     [ item_id   |-> rows[j].child_item_id,
                       total_qty |-> FMul(level[k].total_qty, rows[j].quantity),
                       depth     |-> level[k].depth + 1 ]]
        ELSE <<>>])

\* WITH RECURSIVE bom_explosion: the first level and everything below it
RECURSIVE bom_explosion(_, _)
bom_explosion(level, depth_limit) ==
    IF level = <<>> THEN <<>>
    ELSE level \o bom_explosion(Deeper(level, depth_limit), depth_limit)

\* SUM(total_qty): the doubles are added one by one
RECURSIVE FSum(_)
FSum(qs) == IF qs = <<>> THEN Zero ELSE FAdd(FSum(SubSeq(qs, 1, Len(qs) - 1)), qs[Len(qs)])

RECURSIVE MinDepth(_)
MinDepth(rows) ==
    IF Len(rows) = 1 THEN rows[1].depth
    ELSE LET rest == MinDepth(Tail(rows))
         IN  IF rows[1].depth < rest THEN rows[1].depth ELSE rest

\* COALESCE(ps.stage_name, ...): the label of an item without stage sorts
\* after every stage name
NotSpecified == 999

\* LEFT JOIN production_stages ps ON ps.stage_id = i.stage_id
StageName(it) ==
    IF it.stage_id \in DOMAIN production_stages
    THEN production_stages[it.stage_id].stage_name
    ELSE NotSpecified

\* ORDER BY stage_name, item_code
RECURSIVE OrderRows(_)
OrderRows(S) ==
    IF S = {} THEN <<>>
    ELSE LET first == CHOOSE r \in S : \A o \in S :
                          \/ r.stage_name < o.stage_name
                          \/ /\ r.stage_name = o.stage_name
                             /\ r.item_code <= o.item_code
         IN  <<first>> \o OrderRows(S \ {first})

\* JOIN items, GROUP BY item_code, item_name, stage_name (item_code is
\* UNIQUE: one group per item), SUM and MIN, ORDER BY
GroupRows(rows) ==
    LET known(e) == e.item_id \in DOMAIN bom_items
        joined   == SelectSeq(rows, known)
        of_item(i) == LET same(e) == e.item_id = i IN SelectSeq(joined, same)
    IN  OrderRows({ [ item_code    |-> bom_items[i].item_code,
                      item_name    |-> bom_items[i].item_name,
                      stage_name   |-> StageName(bom_items[i]),
                      required_qty |-> FSum([k \in 1 .. Len(of_item(i)) |->
                                                of_item(i)[k].total_qty]),
                      min_depth    |-> MinDepth(of_item(i)) ]
                    : i \in {joined[k].item_id : k \in 1 .. Len(joined)} })

\* the items of a code
ItemsOfCode(code) == {i \in DOMAIN bom_items : bom_items[i].item_code = code}

explode_bom_for_root(root_code, order_qty, depth_limit) ==
    LET roots == SortedKeys(ItemsOfCode(root_code))
        first == Deeper([k \in 1 .. Len(roots) |->
                            [ item_id |-> roots[k], total_qty |-> order_qty,
                              depth |-> 0 ]], 1)
    IN  GroupRows(bom_explosion(first, depth_limit))

\* the query of calculate_component_needs over the rows of temp_orders
ComponentNeeds(orders, depth_limit) ==
    LET level0 == FlattenSeq([k \in 1 .. Len(orders) |->
                     LET ids == SortedKeys(ItemsOfCode(orders[k].item_code))
                     IN  [j \in 1 .. Len(ids) |->
                             [ item_id |-> ids[j], total_qty |-> orders[k].qty,
                               depth |-> 0 ]]])
        below(e) == e.depth > 0
        rows == GroupRows(SelectSeq(bom_explosion(level0, depth_limit), below))
    IN  [k \in 1 .. Len(rows) |->
            [ item_code  |-> rows[k].item_code,
              item_name  |-> rows[k].item_name,
              stage_name |-> rows[k].stage_name,
              total_quantity_needed |-> rows[k].required_qty ]]

(***************************************************************************)
(* calculate_component_needs, statement by statement, for callers that     *)
(* share the database file.                                                *)
(***************************************************************************)
Callers == {1, 2}

\* orders_df.to_sql("temp_orders", conn, if_exists="replace"): the table is
\* dropped if it is there, created, filled, and the transaction committed
ToSql(p) ==
    /\ cn_pc[p] = "idle"
    /\ temp_orders' = [ exists |-> TRUE, rows |-> cn_orders[p] ]
    /\ cn_pc' = [cn_pc EXCEPT ![p] = "query"]
    /\ UNCHANGED <<besideSql, bom_items, production_stages, bom, cn_orders,
                   cn_result, exvars>>

\* pd.read_sql_query(query, conn): the rows, or "no such table: temp_orders"
ReadSqlQuery(p) ==
    /\ cn_pc[p] = "query"
    /\ cn_result' = [cn_result EXCEPT ![p] =
          IF temp_orders.exists
          THEN [ status |-> "returned",
                 rows   |-> ComponentNeeds(temp_orders.rows, DefaultMaxDepth) ]
          ELSE [ status |-> "raised", rows |-> <<>> ]]
    /\ cn_pc' = [cn_pc EXCEPT ![p] = "drop"]
    /\ UNCHANGED <<besideSql, sqlite_db, cn_orders, exvars>>

\* finally: conn.execute("DROP TABLE IF EXISTS temp_orders")
DropTable(p) ==
    /\ cn_pc[p] = "drop"
    /\ temp_orders' = [ exists |-> FALSE, rows |-> <<>> ]
    /\ cn_pc' = [cn_pc EXCEPT ![p] = "done"]
    /\ UNCHANGED <<besideSql, bom_items, production_stages, bom, cn_orders,
                   cn_result, exvars>>

\* one call of explode_bom_for_root
ExplodeCall ==
    /\ Len(ex_results) < Len(ex_args)
    /\ LET a == ex_args[Len(ex_results) + 1]
       IN  ex_results' = Append(ex_results,
               explode_bom_for_root(a.root_code, a.order_qty, a.max_depth))
    /\ UNCHANGED <<besideSql, sqlite_db, cnvars, ex_args>>

NextNeeds ==
    \/ \E p \in Callers : ToSql(p)
    \/ \E p \in Callers : ReadSqlQuery(p)
    \/ \E p \in Callers : DropTable(p)
    \/ ExplodeCall

\* the backend is not in use
NoBackend ==
    /\ items = <<>>
    /\ default_specs = <<>>
    /\ specifications = <<>>
    /\ spec_components = <<>>
    /\ spec_operations = <<>>
    /\ operations = <<>>
    /\ root_products = <<>>
    /\ request = "none"
    /\ req_item_id = NULL
    /\ root_qty = NULL
    /\ max_depth = NULL
    /\ req_parent_id = None
    /\ req_depth = 0
    /\ CallIdle

\* items 1..NumItems, every one with its own code and name; item 2 has a
\* stage or none
BomItemTables ==
    { [i \in 1 .. NumItems |->
          [ item_code |-> i, item_name |-> i,
            stage_id |-> IF i = 2 THEN s ELSE 1 ]] : s \in {1, NULL} }

\* bom rows without cycle: the parent has the lower id
BomRow(Q) ==
    { [ parent_item_id |-> a, child_item_id |-> b, quantity |-> q ] :
        a \in 1 .. NumItems, b \in 1 .. NumItems, q \in Q }

BomListed(rows) ==
    \A k \in 1 .. (Len(rows) - 1) :
        \/ rows[k].parent_item_id < rows[k + 1].parent_item_id
        \/ /\ rows[k].parent_item_id = rows[k + 1].parent_item_id
           /\ rows[k].child_item_id <= rows[k + 1].child_item_id

BomTables(Q) ==
    UNION { { rows \in [1 .. n -> {r \in BomRow(Q) : r.parent_item_id < r.child_item_id}] :
                BomListed(rows) } : n \in 0 .. MaxComps }

\* order lists of one or two lines; code NumItems + 1 is no item
OrderLists ==
    { << [ item_code |-> 1, qty |-> FromInt(1) ] >>,
      << [ item_code |-> 2, qty |-> FromInt(3) ] >>,
      << [ item_code |-> 1, qty |-> FromInt(2) ],
         [ item_code |-> 2, qty |-> FromInt(1) ] >>,
      << [ item_code |-> NumItems + 1, qty |-> FromInt(1) ] >> }

InitNeeds ==
    /\ NoBackend
    /\ raised = FALSE
    /\ NoPlan
    /\ NoSync
    /\ bom_items \in BomItemTables
    /\ production_stages = << [ stage_name |-> 101 ] >>
    /\ bom \in BomTables({FromInt(1), FromInt(2)})
    /\ temp_orders = [ exists |-> FALSE, rows |-> <<>> ]
    /\ cn_pc = [p \in Callers |-> "idle"]
    /\ cn_orders \in [Callers -> OrderLists]
    /\ cn_result = [p \in Callers |-> [ status |-> "none", rows |-> <<>> ]]
    /\ ex_args = << [ root_code |-> 1, order_qty |-> FromInt(1),
                      max_depth |-> DefaultMaxDepth ] >>
    /\ ex_results = <<>>

SpecNeeds == InitNeeds /\ [][NextNeeds]_vars

(***************************************************************************)
(* C23: no step of an explosion changes the tables or the rows of the      *)
(* database it reads.                                                      *)
(***************************************************************************)
C23_ExplosionWritesNothing == [][sqlite_db' = sqlite_db]_vars

(***************************************************************************)
(* C24: each of two interleaved calls of calculate_component_needs returns *)
(* the component needs of its own orders, what it returns when it runs     *)
(* alone.                                                                  *)
(***************************************************************************)
C24_CallersDoNotInterfere ==
    \A p \in Callers :
        cn_pc[p] = "done" =>
            cn_result[p] = [ status |-> "returned",
                             rows   |-> ComponentNeeds(cn_orders[p], DefaultMaxDepth) ]

(***************************************************************************)
(* Two calls of explode_bom_for_root on one database: for the order        *)
(* quantity q, then for k * q as the caller computes it.                   *)
(***************************************************************************)
Multipliers == {2, 3}

InitExplode ==
    /\ NoBackend
    /\ raised = FALSE
    /\ NoPlan
    /\ NoSync
    /\ bom_items \in BomItemTables
    /\ production_stages = << [ stage_name |-> 101 ] >>
    /\ bom \in BomTables({Tenth, ThreeTenths, FromInt(1), FromInt(2)})
    /\ temp_orders = [ exists |-> FALSE, rows |-> <<>> ]
    /\ cn_pc = <<>>
    /\ cn_orders = <<>>
    /\ cn_result = <<>>
    /\ \E q \in {Tenth, FromInt(1), FromInt(2)}, k \in Multipliers,
          d \in {2, DefaultMaxDepth} :
          ex_args = << [ root_code |-> 1, order_qty |-> q, max_depth |-> d ],
                       [ root_code |-> 1, order_qty |-> FMul(FromInt(k), q),
                         max_depth |-> d ] >>
    /\ ex_results = <<>>

SpecExplode == InitExplode /\ [][ExplodeCall]_vars

\* y = k * x as real numbers
ExactlyTimes(k, x, y) ==
    LET e == IF x.e < y.e THEN x.e ELSE y.e
    IN  Trim(ShiftL(y.m, y.e - e)) = Trim(NatMul(<<k>>, ShiftL(x.m, x.e - e)))

\* the row of a component in a result
RowsOfCode(result, code) ==
    {result[j] : j \in {i \in 1 .. Len(result) : result[i].item_code = code}}

(***************************************************************************)
(* C25: when two calls of explode_bom_for_root differ only in the order    *)
(* quantity, the second being exactly k times the first, every component   *)
(* of the first result is in the second with k times the required_qty,     *)
(* the double that k * required_qty gives.                                 *)
(***************************************************************************)
C25_QuantityLinear ==
    (Len(ex_results) = 2)
        => \A k \in Multipliers :
              ExactlyTimes(k, ex_args[1].order_qty, ex_args[2].order_qty)
                  => \A j \in 1 .. Len(ex_results[1]) :
                        \E r \in RowsOfCode(ex_results[2], ex_results[1][j].item_code) :
                            r.required_qty =
                                FMul(FromInt(k), ex_results[1][j].required_qty)

(***************************************************************************)
(* calculate_stages for a plan of one root: the running call of expand is  *)
(* carried to its end, and the blocks of the root are put into the result. *)
(***************************************************************************)
\* accum when the calls of expand held in st have returned
RECURSIVE ExpandAlone(_, _)
ExpandAlone(st, accum) ==
    IF st = <<>> THEN accum
    ELSE LET top       == st[Len(st)]
             comp      == top.comps[top.i]
             total_qty == TotalQty(top.multiplier, comp)
         IN  IF top.i > Len(top.comps) THEN ExpandAlone(Pop(st), accum)
             ELSE IF SkipComponent(total_qty) THEN ExpandAlone(Advance(st), accum)
             ELSE ExpandAlone(
                      Advance(st) \o Descend(comp, total_qty, top.new_path, top.depth + 1),
                      IF EntersBucket(comp)
                      THEN Accumulate(accum, <<comp.stage_id, comp.item_id>>, total_qty)
                      ELSE accum)

\* "stages" of the result when rid is the only root product of the plan
StagesOfRootAlone(rid) ==
    IF rid \in DOMAIN default_spec_map
    THEN StagesOut(AppendBlocks(<<>>, rid,
                                ExpandAlone(ExpandCall(rid, QS, {}, 0), <<>>)))
    ELSE <<>>

\* the product blocks of root rid in a result, each with its stage
BlocksOfRoot(out, rid) ==
    UNION { { <<out[a].stage_id, b, out[a].products[b]>> :
                b \in {k \in 1 .. Len(out[a].products) :
                          out[a].products[k].root_item_id = rid} }
            : a \in 1 .. Len(out) }

\* the blocks without their positions among the blocks of other roots
Unplaced(blocks) == { <<x[1], x[3]>> : x \in blocks }

(***************************************************************************)
(* C26: in the result of calculate_stages a root product has, stage by     *)
(* stage, the blocks with the components and quantities it has when it is  *)
(* the only root product of the plan, and one block per stage at most.     *)
(***************************************************************************)
C26_RootBlocksStandAlone ==
    st_pc = "done" =>
        \A rid \in Range(root_item_ids) :
            /\ Unplaced(BlocksOfRoot(stages_out, rid))
                  = Unplaced(BlocksOfRoot(StagesOfRootAlone(rid), rid))
            /\ Cardinality(BlocksOfRoot(stages_out, rid))
                  = Cardinality(BlocksOfRoot(StagesOfRootAlone(rid), rid))

\* two root products have blocks in one stage of the result
C26_Witness ==
    /\ st_pc = "done"
    /\ \E a \in 1 .. Len(stages_out) :
          \E b, c \in 1 .. Len(stages_out[a].products) :
              /\ stages_out[a].products[b].root_item_id
                    # stages_out[a].products[c].root_item_id
              /\ stages_out[a].products[b].components
                    # stages_out[a].products[c].components

(***************************************************************************)
(* upsert_plan_entry, statement by statement, for sessions of requests     *)
(* served at the same time.  Every session has its own transaction         *)
(* (READ COMMITTED): it sees the committed rows, and its own changes       *)
(* become visible to the others when it commits.                           *)
(***************************************************************************)
Sessions == {1, 2}

MaxCalls == 3

\* date.today()
Today == 2

\* a date_str that is no ISO date
NoDate == 0

\* date.fromisoformat(date_str), date.today() for a text that is no date
ParseDate(date_str) == IF date_str = NoDate THEN Today ELSE date_str

\* the arguments of a call
UpsertRequests ==
    [ item_id : 1 .. 2, date_str : {1, NoDate}, planned_qty : {1, 2},
      stage_id : {NULL, 1} ]

\* WHERE item_id = :item_id AND date = :d AND stage_id = :stage_id, the
\* last one IS NULL for stage_id None
Matches(row, req) ==
    /\ row.item_id = req.item_id
    /\ row.date = ParseDate(req.date_str)
    /\ row.stage_id = req.stage_id

\* POST /v1/plan/upsert arrives at a session
UpsertArrive(p) ==
    /\ up_pc[p] \in {"idle", "done"}
    /\ up_calls < MaxCalls
    /\ up_calls' = up_calls + 1
    /\ up_req' \in {[up_req EXCEPT ![p] = r] : r \in UpsertRequests}
    /\ up_pc' = [up_pc EXCEPT ![p] = "arrived"]
    /\ up_rows' = [up_rows EXCEPT ![p] = {}]
    /\ UNCHANGED <<besidePlan, plan_entries>>

\* the UPDATE statement: the rows it hits stay locked until the commit, so
\* it waits for a session that has updated one of them
UpdateStmt(p) ==
    /\ up_pc[p] = "arrived"
    /\ LET hit == {k \in 1 .. Len(plan_entries) : Matches(plan_entries[k], up_req[p])}
       IN  /\ \A q \in Sessions \ {p} : up_pc[q] = "updated" => up_rows[q] \cap hit = {}
           /\ up_rows' = [up_rows EXCEPT ![p] = hit]
    /\ up_pc' = [up_pc EXCEPT ![p] = "updated"]
    /\ UNCHANGED <<besidePlan, plan_entries, up_req, up_calls>>

\* if update_stmt == 0: db.add(new_entry); then db.commit()
UpsertCommit(p) ==
    /\ up_pc[p] = "updated"
    /\ plan_entries' =
          IF up_rows[p] = {}
          THEN Append(plan_entries,
                      [ id          |-> Len(plan_entries) + 1,
                        item_id     |-> up_req[p].item_id,
                        stage_id    |-> up_req[p].stage_id,
                        date        |-> ParseDate(up_req[p].date_str),
                        planned_qty |-> up_req[p].planned_qty ])
          ELSE [k \in 1 .. Len(plan_entries) |->
                   IF k \in up_rows[p]
                   THEN [plan_entries[k] EXCEPT !.planned_qty = up_req[p].planned_qty]
                   ELSE plan_entries[k]]
    /\ up_pc' = [up_pc EXCEPT ![p] = "done"]
    /\ UNCHANGED <<besidePlan, up_req, up_rows, up_calls>>

NextPlan ==
    \/ \E p \in Sessions : UpsertArrive(p)
    \/ \E p \in Sessions : UpdateStmt(p)
    \/ \E p \in Sessions : UpsertCommit(p)

\* no two rows of the table have the same (item_id, date, stage_id)
PlanKeysUnique(rows) ==
    \A j, k \in 1 .. Len(rows) :
        (/\ rows[j].item_id = rows[k].item_id
         /\ rows[j].date = rows[k].date
         /\ rows[j].stage_id = rows[k].stage_id) => j = k

\* the table is empty or has one row
InitPlan ==
    /\ NoBackend
    /\ raised = FALSE
    /\ NoSqlite
    /\ NoSync
    /\ plan_entries \in { <<>>,
                          << [ id |-> 1, item_id |-> 1, stage_id |-> NULL,
                               date |-> 1, planned_qty |-> 1 ] >> }
    /\ up_pc = [p \in Sessions |-> "idle"]
    /\ up_req = [p \in Sessions |->
                    [ item_id |-> 1, date_str |-> 1, planned_qty |-> 1,
                      stage_id |-> NULL ]]
    /\ up_rows = [p \in Sessions |-> {}]
    /\ up_calls = 0

SpecPlan == InitPlan /\ [][NextPlan]_vars

(***************************************************************************)
(* C27: the table production_plan_entries never has two rows with the same *)
(* (item_id, date, stage_id), whatever calls of upsert_plan_entry are      *)
(* made and however their statements interleave.                           *)
(***************************************************************************)
C27_PlanKeysStayUnique == PlanKeysUnique(plan_entries)


(***************************************************************************)
(* C28: calculate_stages expands every item through the specification the  *)
(* tree resolver resolves for it, so the root of the eager tree has        *)
(* component children exactly when calculate_stages descends into that     *)
(* item.                                                                   *)
(***************************************************************************)
\* default_spec_map.get(item_id): the specification calculate_stages expands
\* the item through, if any
StageSpecOf(item_id) ==
    IF item_id \in DOMAIN default_spec_map THEN default_spec_map[item_id] ELSE NULL

\* expand() goes past its early returns: a specification and rows in it
StagesDescend(item_id) ==
    /\ StageSpecOf(item_id) # NULL
    /\ get_components_for_spec(StageSpecOf(item_id)) # <<>>

C28_SameSpecification ==
    (request = "full" /\ tr_pc = "done" /\ tr_status = 200) =>
        /\ \A i \in DOMAIN items : StageSpecOf(i) = _resolve_spec_id_for_item_id(i)
        /\ tree[<<>>].children # Some(0) <=> StagesDescend(req_item_id)


(***************************************************************************)
(* C29: within one eager tree response no two distinct nodes have the same *)
(* id, also when the same item occurs with the same path quantity under    *)
(* two parents or twice in one specification.                              *)
(***************************************************************************)
C29_NodeIdsUnique ==
    (request = "full" /\ tr_pc = "done" /\ tr_status = 200) =>
        \A a, b \in DOMAIN tree : a # b => tree[a].id # tree[b].id


(***************************************************************************)
(* The syncs from 1C and their progress                                    *)
(*                                                                         *)
(* sync_nomenclature_from_odata and sync_units_from_odata report to the    *)
(* one ProgressManager under the keys "nomenclature" and "units".  A sync  *)
(* runs in the thread of its request and goes from statement to statement  *)
(* by itself; whether a query, a page of the feed or the commit raises is  *)
(* open at each step.  The texts of the messages and the two time stamps   *)
(* of a state are left out.                                                *)
(***************************************************************************)
Keys == {"nomenclature", "units"}

\* records the feed of 1C holds at most
MaxRecords == 50

\* what get_count answers when it answers
TotalCount == 40

\* progress.update is called every so many records
UpdateEvery(key) == IF key = "nomenclature" THEN 50 ELSE 20

\* max(0.0, min(1.0, p / float(t))) as a fraction <<numerator, denominator>>
Percent(p, t) ==
    IF t > 0 THEN (IF p >= t THEN <<1, 1>> ELSE <<p, t>>) ELSE <<0, 1>>

\* ProgressManager.start
ProgressStart(state, key, total) ==
    [k \in DOMAIN state \cup {key} |->
        IF k = key
        THEN [ finished |-> FALSE, error |-> None, total |-> total,
               processed |-> 0, percent |-> <<0, 1>> ]
        ELSE state[k]]

\* ProgressManager.update(key, processed=...)
ProgressUpdate(state, key, processed) ==
    LET st == IF key \in DOMAIN state THEN state[key]
              ELSE [ finished |-> FALSE, error |-> None, total |-> 0,
                     processed |-> 0, percent |-> <<0, 1>> ]
    IN  [k \in DOMAIN state \cup {key} |->
            IF k = key
            THEN [st EXCEPT !.processed = processed,
                            !.percent = Percent(processed, st.total)]
            ELSE state[k]]

\* ProgressManager.finish of a key that was started
ProgressFinish(state, key, error) ==
    LET st == state[key]
    IN  [state EXCEPT ![key] =
            IF error = None
            THEN [st EXCEPT !.finished = TRUE,
                            !.error = None,
                            !.processed = IF st.total > 0 /\ st.processed < st.total
                                          THEN st.total ELSE st.processed,
                            !.percent = <<1, 1>>]
            ELSE [st EXCEPT !.finished = TRUE, !.error = error]]

\* ProgressManager.get_state, as GET /sync/progress returns it
get_state(key) ==
    IF key \in DOMAIN progress_state THEN progress_state[key]
    ELSE [ finished |-> FALSE, error |-> None, total |-> 0,
           processed |-> 0, percent |-> <<0, 1>> ]

\* a request for the sync arrives: get_count, then progress.start
SyncStart(key) ==
    /\ sync_pc[key] \in {"idle", "returned", "raised"}
    /\ \E total_count \in {0, TotalCount} :
          progress_state' = ProgressStart(progress_state, key, total_count)
    /\ sync_pc' = [sync_pc EXCEPT ![key] = "started"]
    /\ sync_processed' = [sync_processed EXCEPT ![key] = 0]
    /\ UNCHANGED besideSync

\* the rows already in the database are read
SyncExisting(key) ==
    /\ sync_pc[key] = "started"
    /\ sync_pc' = [sync_pc EXCEPT ![key] = "pages"]
    /\ UNCHANGED <<besideSync, progress_state, sync_processed>>

\* db.query raises: sync_nomenclature_from_odata rolls back and raises on,
\* sync_units_from_odata is not yet inside its try
SyncExistingRaises(key) ==
    /\ sync_pc[key] = "started"
    /\ sync_pc' = [sync_pc EXCEPT ![key] = "raised"]
    /\ UNCHANGED <<besideSync, progress_state, sync_processed>>

\* one more record of the feed
SyncRecord(key) ==
    /\ sync_pc[key] = "pages"
    /\ sync_processed[key] < MaxRecords
    /\ LET processed == sync_processed[key] + 1
       IN  /\ sync_processed' = [sync_processed EXCEPT ![key] = processed]
           /\ progress_state' = IF processed % UpdateEvery(key) = 0
                                THEN ProgressUpdate(progress_state, key, processed)
                                ELSE progress_state
    /\ UNCHANGED <<besideSync, sync_pc>>

\* client.iter_pages raises: only sync_units_from_odata closes the progress
SyncPagesRaise(key) ==
    /\ sync_pc[key] = "pages"
    /\ progress_state' = IF key = "units"
                         THEN ProgressFinish(progress_state, key, Some("error"))
                         ELSE progress_state
    /\ sync_pc' = [sync_pc EXCEPT ![key] = "raised"]
    /\ UNCHANGED <<besideSync, sync_processed>>

\* the feed is at its end: the last update, then progress.finish
SyncFinish(key) ==
    /\ sync_pc[key] = "pages"
    /\ progress_state' =
          ProgressFinish(ProgressUpdate(progress_state, key, sync_processed[key]),
                         key, None)
    /\ sync_pc' = [sync_pc EXCEPT ![key] = "finished"]
    /\ UNCHANGED <<besideSync, sync_processed>>

\* commit or rollback, and the statistics are returned
SyncReturn(key) ==
    /\ sync_pc[key] = "finished"
    /\ sync_pc' = [sync_pc EXCEPT ![key] = "returned"]
    /\ UNCHANGED <<besideSync, progress_state, sync_processed>>

\* db.commit raises after progress.finish
SyncCommitRaises(key) ==
    /\ sync_pc[key] = "finished"
    /\ progress_state' = IF key = "units"
                         THEN ProgressFinish(progress_state, key, Some("error"))
                         ELSE progress_state
    /\ sync_pc' = [sync_pc EXCEPT ![key] = "raised"]
    /\ UNCHANGED <<besideSync, sync_processed>>

\* the statements a running sync goes through by itself
SyncStep(key) ==
    \/ SyncExisting(key)
    \/ SyncExistingRaises(key)
    \/ SyncRecord(key)
    \/ SyncPagesRaise(key)
    \/ SyncFinish(key)
    \/ SyncReturn(key)
    \/ SyncCommitRaises(key)

NextSync ==
    \/ \E key \in Keys : SyncStart(key)
    \/ \E key \in Keys : SyncExisting(key)
    \/ \E key \in Keys : SyncExistingRaises(key)
    \/ \E key \in Keys : SyncRecord(key)
    \/ \E key \in Keys : SyncPagesRaise(key)
    \/ \E key \in Keys : SyncFinish(key)
    \/ \E key \in Keys : SyncReturn(key)
    \/ \E key \in Keys : SyncCommitRaises(key)

InitSync ==
    /\ NoBackend
    /\ raised = FALSE
    /\ NoSqlite
    /\ NoPlan
    /\ progress_state = <<>>
    /\ sync_pc = [key \in Keys |-> "idle"]
    /\ sync_processed = [key \in Keys |-> 0]

\* a sync that was called runs on to its return or its exception; nothing
\* makes a client call it again
SpecSync ==
    /\ InitSync
    /\ [][NextSync]_vars
    /\ \A key \in Keys : WF_vars(SyncStep(key))

(***************************************************************************)
(* C30: every sync that has called progress.start for its key eventually   *)
(* calls progress.finish for that key, whether it succeeds or raises, so   *)
(* a client polling get_state for the key eventually sees finished = true. *)
(***************************************************************************)
C30_StartedEventuallyFinished ==
    \A key \in Keys : (sync_pc[key] = "started") ~> get_state(key).finished

=============================================================================
